---- MODULE Spec2Model ----
(***************************************************************************)
(* Ledger and drivers of crypto-trader-sim: executeTrade (portfolio.ts),   *)
(* the backtest loop of runSimulation (simulator.ts), the --simulate       *)
(* command of main (index.ts) and one runAutoTrade cycle (auto-trader.ts). *)
(* SpecSignal is the signal pipeline on its own (analyzeIndicators and     *)
(* computeSignal, strategies.ts); SpecOverlap is two runAutoTrade          *)
(* processes on one state file; SpecTwin is one backtest stepped beside    *)
(* two different state files; SpecIndicators is calcRSI and                *)
(* calcMovingAverages (technical.ts) on price series; SpecSampling is one  *)
(* backtest followed to the end of its loop; SpecPresets is one candle     *)
(* window scored under every preset; SpecIds is the backtest loop body     *)
(* with the clock that gives the trades their ids; SpecLookahead is one    *)
(* backtest run on two histories that differ in one close.                 *)
(*                                                                         *)
(* Money, prices and quantities are JavaScript numbers in the source.      *)
(* They are modelled as exact rationals <<numerator, denominator>> in      *)
(* lowest terms with a positive denominator, so that amount / price and    *)
(* quantity * price are computed, not assumed to cancel.  Rounding error   *)
(* of IEEE doubles is not modelled.                                        *)
(*                                                                         *)
(* An absent optional field (currentPrice?) is the empty tuple Undef.      *)
(* Date.now() values (timestamps, lastUpdated) and the text of the         *)
(* indicator reasons are not part of this model; a trade's reason is the   *)
(* tag of the rule that produced it.  The ids of the trades are kept       *)
(* beside the log, in ids, by the specification that follows the clock.    *)
(***************************************************************************)
EXTENDS Integers, Sequences, FiniteSets, TLC

(***************************************************************************)
(* Bounds of the exploration.                                              *)
(***************************************************************************)
\* passes over the coin list explored in one behaviour: sampled indices of
\* the backtests plus auto-trade cycles
MaxPasses == 2
\* candles handed to analyzeIndicators: 0..MaxCandles
MaxCandles == 27
\* length of an indicator list handed to computeSignal directly
MaxSupplied == 2
\* length of the longest rising price series
MaxSeries == 40
\* length of the longest falling series and of the longest series that
\* alternates between two prices
MaxZigzag == 18
\* candles of the shortest history of a backtest sampled on its own:
\* warmup..MaxHistory
MaxHistory == 43
\* --simulate Nd: 1..MaxDays
MaxDays == 2
\* the last clock reading, in milliseconds after the first
MaxClock == 2
\* executeTrade calls followed with the clock
MaxCalls == 4
\* candles of the history of a backtest run beside a twin with one other close
HistoryLength == 62

(***************************************************************************)
(* Exact rational arithmetic.                                              *)
(***************************************************************************)
Abs(n) == IF n < 0 THEN -n ELSE n

RECURSIVE GCD(_, _)
GCD(a, b) == IF b = 0 THEN a ELSE GCD(b, a % b)

Norm(n, d) ==
    LET g == GCD(Abs(n), d)
    IN  <<n \div g, d \div g>>

R(n) == <<n, 1>>
Zero == R(0)
One == R(1)
Undef == <<>>

RNeg(a) == <<-a[1], a[2]>>

RAdd(a, b) ==
    LET g == GCD(a[2], b[2])
        l == (a[2] \div g) * b[2]
    IN  Norm(a[1] * (l \div a[2]) + b[1] * (l \div b[2]), l)

RSub(a, b) == RAdd(a, RNeg(b))

RMul(a, b) ==
    LET g1 == GCD(Abs(a[1]), b[2])
        g2 == GCD(Abs(b[1]), a[2])
    IN  Norm((a[1] \div g1) * (b[1] \div g2), (a[2] \div g2) * (b[2] \div g1))

RInv(a) == IF a[1] > 0 THEN <<a[2], a[1]>> ELSE <<-a[2], -a[1]>>

RDiv(a, b) == RMul(a, RInv(b))

RLt(a, b) == RSub(a, b)[1] < 0
RLe(a, b) == RSub(a, b)[1] <= 0
RGe(a, b) == RLe(b, a)

\* Math.min
RMin(a, b) == IF RLt(b, a) THEN b ELSE a
\* Math.max
RMax(a, b) == IF RLt(a, b) THEN b ELSE a

\* JavaScript truthiness of an optional number: undefined and 0 are falsy
Truthy(x) == x # Undef /\ x # Zero

(***************************************************************************)
(* Inputs.                                                                 *)
(***************************************************************************)
\* --coins BTC,ETH (the default of main)
coins == <<"BTC", "ETH">>
\* closes / spot prices the market-data provider may return
Prices == {R(90), R(100)}
\* --capital
Capitals == {R(2), R(12), R(100)}
Signals == {"BUY", "SELL", "HOLD"}
\* no signal computed yet in the running command
NoSignal == [coin |-> "", signal |-> "NONE", price |-> Zero]

(***************************************************************************)
(* STRATEGIES (strategies.ts).                                             *)
(***************************************************************************)
STRATEGIES ==
    [conservative |-> [indicators |-> {"RSI", "MACD", "BollingerBands",
                                       "MovingAverages", "Volume"},
                       buyThreshold |-> 60, sellThreshold |-> -60,
                       maxPositionPct |-> R(20), stopLossPct |-> R(5),
                       takeProfitPct |-> R(10)],
     balanced     |-> [indicators |-> {"RSI", "MACD", "BollingerBands",
                                       "MovingAverages"},
                       buyThreshold |-> 40, sellThreshold |-> -40,
                       maxPositionPct |-> R(33), stopLossPct |-> R(8),
                       takeProfitPct |-> R(15)],
     aggressive   |-> [indicators |-> {"RSI", "MACD", "BollingerBands"},
                       buyThreshold |-> 25, sellThreshold |-> -25,
                       maxPositionPct |-> R(50), stopLossPct |-> R(12),
                       takeProfitPct |-> R(25)]]

\* --strategy values explored by the ledger.  balanced is left out: with
\* maxPositionPct 33 every BUY multiplies the denominators by 100, and the
\* exact amounts leave the 32-bit integers of the model checker after the
\* third BUY.  "yolo" is a name STRATEGIES does not have.
StrategyNames == {"conservative", "aggressive", "yolo"}

\* mutant: main takes any --strategy
KnownStrategy_Any(name) == TRUE

\* if (!STRATEGIES[strategyName]) of main
KnownStrategy(name) == name \in DOMAIN STRATEGIES

\* const CAPITAL_RESERVE = 10 (auto-trader.ts)
CAPITAL_RESERVE == R(10)
\* p.capital * 0.95 (portfolio.ts): the share of capital a BUY may spend
RESERVE_FACTOR == <<19, 20>>
\* amount < 1, availableCapital < 1: the minimal trade
TRADE_FLOOR == One
\* minCandles < 30, candles.length < 30: the indicator warm-up
MIN_CANDLES == 30
\* const warmup = 30: the first sampled index of a backtest
warmup == 30
\* candles.slice(-60): the trailing window handed to analyzeIndicators
WINDOW == 60

VARIABLES
    pc,            \* where the program is: idle, simLoop, simTrade, autoStops, autoCoins
    strategyName,  \* --strategy
    capitalArg,    \* --capital
    portfolio,     \* the Portfolio of the running command
    disk,          \* state/portfolio.json: NoFile or <<document>>
    signal,        \* the TradeSignal computed for the coin being processed
    ci,            \* index into coins of the coin to process next
    errors,        \* runAutoTrade's errors list
    passes,        \* passes over the coin list started so far
    chart,         \* runSimulation: getMarketChart's reply for each coin
    outcome,       \* how the last command ended; "running" while one runs
    io,            \* loadPortfolio / savePortfolio calls of the running or last command
    durationDays,  \* --simulate Nd
    sim,           \* runSimulation's locals: the index i, maxValue, maxDrawdown
    result,        \* the SimulationResult runSimulation returned: <<>> or <<result>>
    rival,         \* a second runAutoTrade process on the same state file
    twin,          \* the same backtest run beside another persisted portfolio
    candles,       \* the number of candles given to analyzeIndicators
    indicators,    \* the IndicatorResult list analyzeIndicators returned
    tradeSignal,   \* the TradeSignal computeSignal returned
    closes,        \* the price series given to calcRSI and calcMovingAverages
    rsi,           \* what calcRSI returned for closes: <<>> or <<result>>
    ma,            \* what calcMovingAverages returned for closes: <<>> or <<result>>
    panel,         \* the TradeSignal of each preset for one candle window, or <<>>
    now,           \* the clock: what Date.now() returned last, in milliseconds
    ids,           \* the ids of portfolio.trades, in the order of the log
    coinData       \* the closes getMarketChart returned per coin, for the run and its twin

\* the variables of the other processes and of the signal pipeline
rivalVars == <<rival, twin>>
signalVars == <<candles, indicators, tradeSignal, closes, rsi, ma>>
\* the variables of the specifications that look at one aspect on its own
auxVars == <<panel, now, ids, coinData>>

vars == <<pc, strategyName, capitalArg, portfolio, disk, signal, ci, errors, passes,
          chart, outcome, io, durationDays, sim, result, rival, twin, candles,
          indicators, tradeSignal, closes, rsi, ma, panel, now, ids,
          coinData>>

\* the aspects looked at on their own have not started
\* no history has been fetched
NoData == [run |-> <<>>, twin |-> <<>>]

AuxInit == panel = <<>> /\ now = 0 /\ ids = <<>> /\ coinData = NoData

strategy == STRATEGIES[strategyName]

(***************************************************************************)
(* Portfolio helpers.                                                      *)
(***************************************************************************)
\* loadPortfolio's fresh portfolio and runSimulation's reset
FreshPortfolio(initialCapital) ==
    [capital |-> initialCapital, initialCapital |-> initialCapital,
     positions |-> <<>>, trades |-> <<>>,
     totalPnl |-> Zero, totalPnlPercent |-> Zero]

\* mutant: only the first position is compared with the coin
HasPosition_FirstOnly(positions, coin) == Len(positions) > 0 /\ positions[1].coin = coin

\* positions.find(pos => pos.coin === coin) is defined
HasPosition(positions, coin) == \E i \in 1..Len(positions) : positions[i].coin = coin

\* positions.findIndex(pos => pos.coin === coin): 0 stands for -1
FindIndex(positions, coin) ==
    IF HasPosition(positions, coin)
    THEN CHOOSE i \in 1..Len(positions) :
            /\ positions[i].coin = coin
            /\ \A j \in 1..(i - 1) : positions[j].coin # coin
    ELSE 0

\* positions.splice(i, 1)
Splice(s, i) == [j \in 1..(Len(s) - 1) |-> IF j < i THEN s[j] ELSE s[j + 1]]

\* pos.quantity * (pos.currentPrice || pos.entryPrice)
PositionValue(pos) ==
    RMul(pos.quantity, IF Truthy(pos.currentPrice) THEN pos.currentPrice ELSE pos.entryPrice)

\* positions.reduce((sum, pos) => sum + ..., 0)
RECURSIVE PositionsValue(_)
PositionsValue(positions) ==
    IF positions = <<>> THEN Zero
    ELSE RAdd(PositionsValue(SubSeq(positions, 1, Len(positions) - 1)),
              PositionValue(positions[Len(positions)]))

\* ((pos.currentPrice - pos.entryPrice) / pos.entryPrice) * 100
PnlPct(pos) ==
    RMul(RDiv(RSub(pos.currentPrice, pos.entryPrice), pos.entryPrice), R(100))

\* mutant: the totals are left as they were
UpdateTotals_Stale(p) == p

\* "Update totals": totalPnl and totalPnlPercent from capital and positions
UpdateTotals(p) ==
    LET totalValue == RAdd(p.capital, PositionsValue(p.positions))
        totalPnl == RSub(totalValue, p.initialCapital)
    IN  [p EXCEPT !.totalPnl = totalPnl,
                  !.totalPnlPercent = RMul(RDiv(totalPnl, p.initialCapital), R(100))]

(***************************************************************************)
(* executeTrade (portfolio.ts).                                            *)
(***************************************************************************)
\* mutant: the percentage is taken of what is left after the 5% reserve
BuyAmount_AfterReserve(capital, strat) ==
    RMul(RMul(capital, RESERVE_FACTOR), RDiv(strat.maxPositionPct, R(100)))

\* maxAmount and amount of a BUY: Math.min(maxAmount, p.capital * 0.95)
BuyAmount(capital, strat) ==
    RMin(RMul(capital, RDiv(strat.maxPositionPct, R(100))),
         RMul(capital, RESERVE_FACTOR))

\* the BUY branch once its two guards have passed
ApplyBuy(p, sig, strat) ==
    LET amount == BuyAmount(p.capital, strat)
        quantity == RDiv(amount, sig.price)
    IN  [p EXCEPT
            !.capital = RSub(p.capital, amount),
            !.positions = Append(p.positions,
                [coin |-> sig.coin, entryPrice |-> sig.price, quantity |-> quantity,
                 currentPrice |-> Undef, pnl |-> Undef, pnlPercent |-> Undef]),
            !.trades = Append(p.trades,
                [coin |-> sig.coin, side |-> "BUY", price |-> sig.price,
                 quantity |-> quantity, total |-> amount, reason |-> "signal"])]

\* mutant: the proceeds are computed at the entry price
ApplySell_AtEntry(p, sig) ==
    LET posIdx == FindIndex(p.positions, sig.coin)
        pos == p.positions[posIdx]
        amount == RMul(pos.quantity, pos.entryPrice)
    IN  [p EXCEPT
            !.capital = RAdd(p.capital, amount),
            !.positions = Splice(p.positions, posIdx),
            !.trades = Append(p.trades,
                [coin |-> sig.coin, side |-> "SELL", price |-> sig.price,
                 quantity |-> pos.quantity, total |-> amount, reason |-> "signal"])]

\* mutant: the SELL takes the place of the last trade in the log
ApplySell_Rewrites(p, sig) ==
    LET posIdx == FindIndex(p.positions, sig.coin)
        pos == p.positions[posIdx]
        amount == RMul(pos.quantity, sig.price)
    IN  [p EXCEPT
            !.capital = RAdd(p.capital, amount),
            !.positions = Splice(p.positions, posIdx),
            !.trades = Append(SubSeq(p.trades, 1, Len(p.trades) - 1),
                [coin |-> sig.coin, side |-> "SELL", price |-> sig.price,
                 quantity |-> pos.quantity, total |-> amount, reason |-> "signal"])]

\* the SELL branch once a position was found at posIdx
ApplySell(p, sig) ==
    LET posIdx == FindIndex(p.positions, sig.coin)
        pos == p.positions[posIdx]
        amount == RMul(pos.quantity, sig.price)
    IN  [p EXCEPT
            !.capital = RAdd(p.capital, amount),
            !.positions = Splice(p.positions, posIdx),
            !.trades = Append(p.trades,
                [coin |-> sig.coin, side |-> "SELL", price |-> sig.price,
                 quantity |-> pos.quantity, total |-> amount, reason |-> "signal"])]

\* mutant: the exit is booked at the entry price
ForcedExit_AtEntry(p, i, reason) ==
    LET pos == p.positions[i]
        amount == RMul(pos.quantity, pos.entryPrice)
    IN  [p EXCEPT
            !.capital = RAdd(p.capital, amount),
            !.trades = Append(p.trades,
                [coin |-> pos.coin, side |-> "SELL", price |-> pos.currentPrice,
                 quantity |-> pos.quantity, total |-> amount, reason |-> reason]),
            !.positions = Splice(p.positions, i)]

\* a forced exit of positions[i] at its currentPrice
ForcedExit(p, i, reason) ==
    LET pos == p.positions[i]
        amount == RMul(pos.quantity, pos.currentPrice)
    IN  [p EXCEPT
            !.capital = RAdd(p.capital, amount),
            !.trades = Append(p.trades,
                [coin |-> pos.coin, side |-> "SELL", price |-> pos.currentPrice,
                 quantity |-> pos.quantity, total |-> amount, reason |-> reason]),
            !.positions = Splice(p.positions, i)]

\* pnlPct <= -strategy.stopLossPct
StopLossHit(pos, strat) == RLe(PnlPct(pos), RNeg(strat.stopLossPct))
\* pnlPct >= strategy.takeProfitPct
TakeProfitHit(pos, strat) == RGe(PnlPct(pos), strat.takeProfitPct)

\* for (let i = p.positions.length - 1; i >= 0; i--) of executeTrade
RECURSIVE CheckStops(_, _, _)
CheckStops(p, strat, i) ==
    IF i = 0 THEN p
    ELSE LET pos == p.positions[i]
         IN  IF ~Truthy(pos.currentPrice) THEN CheckStops(p, strat, i - 1)
             ELSE IF StopLossHit(pos, strat)
                  THEN CheckStops(ForcedExit(p, i, "Stop-loss at"), strat, i - 1)
             ELSE IF TakeProfitHit(pos, strat)
                  THEN CheckStops(ForcedExit(p, i, "Take-profit at"), strat, i - 1)
             ELSE CheckStops(p, strat, i - 1)

executeTrade(p, sig, strat) ==
    IF sig.signal = "BUY" /\ HasPosition(p.positions, sig.coin) THEN p
    ELSE IF sig.signal = "BUY" /\ RLt(BuyAmount(p.capital, strat), TRADE_FLOOR) THEN p
    ELSE IF sig.signal = "SELL" /\ FindIndex(p.positions, sig.coin) = 0 THEN p
    ELSE LET traded == IF sig.signal = "BUY" THEN ApplyBuy(p, sig, strat)
                       ELSE IF sig.signal = "SELL" THEN ApplySell(p, sig)
                       ELSE p
         IN  UpdateTotals(CheckStops(traded, strat, Len(traded.positions)))

(***************************************************************************)
(* Persistence (portfolio.ts): JSON.stringify drops undefined fields and   *)
(* JSON.parse leaves them absent.                                          *)
(***************************************************************************)
PositionFields == {"coin", "entryPrice", "quantity", "currentPrice", "pnl", "pnlPercent"}
\* currentPrice?, pnl?, pnlPercent? (types.ts)
OptionalFields == {"currentPrice", "pnl", "pnlPercent"}

Stringify(p) ==
    [p EXCEPT !.positions =
        [i \in 1..Len(p.positions) |->
            [f \in {g \in PositionFields :
                        g \in OptionalFields => p.positions[i][g] # Undef} |-> p.positions[i][f]]]]

Parse(json) ==
    [json EXCEPT !.positions =
        [i \in 1..Len(json.positions) |->
            [f \in PositionFields |->
                IF f \in DOMAIN json.positions[i] THEN json.positions[i][f] ELSE Undef]]]

\* state/portfolio.json: no file, or the one document it holds
NoFile == <<>>

\* the content of state/portfolio.json after savePortfolio(p)
savePortfolio(p) == <<Stringify(p)>>

\* fs.existsSync(STATE_FILE) ? JSON.parse(...) : the fresh portfolio
loadPortfolio(file, initialCapital) ==
    IF file # NoFile THEN Parse(file[1]) ELSE FreshPortfolio(initialCapital)

(***************************************************************************)
(* runAutoTrade (auto-trader.ts): the ledger steps of one cycle.           *)
(***************************************************************************)
\* pos.currentPrice = prices[pos.coin] || pos.entryPrice, pos.pnl, pos.pnlPercent
UpdatePrice(pos, reply) ==
    LET currentPrice == IF Truthy(reply) THEN reply ELSE pos.entryPrice
    IN  [pos EXCEPT
            !.currentPrice = currentPrice,
            !.pnl = RMul(RSub(currentPrice, pos.entryPrice), pos.quantity),
            !.pnlPercent = RMul(RDiv(RSub(currentPrice, pos.entryPrice), pos.entryPrice), R(100))]

\* "Check stop-loss / take-profit on existing positions FIRST"
RECURSIVE AutoCheckStops(_, _, _)
AutoCheckStops(p, strat, i) ==
    IF i = 0 THEN p
    ELSE LET pos == p.positions[i]
         IN  IF ~Truthy(pos.currentPrice) THEN AutoCheckStops(p, strat, i - 1)
             ELSE IF StopLossHit(pos, strat)
                  THEN AutoCheckStops(ForcedExit(p, i, "Stop-loss triggered at"), strat, i - 1)
             ELSE IF TakeProfitHit(pos, strat)
                  THEN AutoCheckStops(ForcedExit(p, i, "Take-profit triggered at"), strat, i - 1)
             ELSE AutoCheckStops(p, strat, i - 1)

\* mutant: the reserve is added to the capital
AvailableCapital_Adds(capital) == RAdd(capital, CAPITAL_RESERVE)

\* availableCapital = portfolio.capital - CAPITAL_RESERVE
AvailableCapital(capital) == RSub(capital, CAPITAL_RESERVE)

\* mutant: the percentage is taken of the whole capital, reserve included
TradeAmount_NoReserve(capital, strat) ==
    RMin(RMul(capital, RDiv(strat.maxPositionPct, R(100))), capital)

\* tradeAmount = Math.min(availableCapital * (maxPositionPct / 100), availableCapital)
TradeAmount(capital, strat) ==
    RMin(RMul(AvailableCapital(capital), RDiv(strat.maxPositionPct, R(100))),
         AvailableCapital(capital))

AutoBuy(p, sig, strat) ==
    LET tradeAmount == TradeAmount(p.capital, strat)
        quantity == RDiv(tradeAmount, sig.price)
    IN  [p EXCEPT
            !.capital = RSub(p.capital, tradeAmount),
            !.positions = Append(p.positions,
                [coin |-> sig.coin, entryPrice |-> sig.price, quantity |-> quantity,
                 currentPrice |-> sig.price, pnl |-> Zero, pnlPercent |-> Zero]),
            !.trades = Append(p.trades,
                [coin |-> sig.coin, side |-> "BUY", price |-> sig.price,
                 quantity |-> quantity, total |-> tradeAmount, reason |-> "signal"])]

\* the body of "for (const coin of coins)" once the signal is computed
AutoSignal(p, sig, strat) ==
    IF sig.signal = "BUY"
    THEN IF HasPosition(p.positions, sig.coin) THEN p
         ELSE IF RLt(AvailableCapital(p.capital), TRADE_FLOOR) THEN p
         ELSE AutoBuy(p, sig, strat)
    ELSE IF sig.signal = "SELL"
    THEN IF FindIndex(p.positions, sig.coin) = 0 THEN p
         ELSE ApplySell(p, sig)
    ELSE p

(***************************************************************************)
(* Indicators (technical.ts) and signals (strategies.ts).  The arithmetic  *)
(* of an indicator over the closes is not modelled here: an indicator      *)
(* function is the set of results its final if / else chain can return.    *)
(***************************************************************************)
IndicatorResult(name, sg, strength, reason) ==
    [name |-> name, signal |-> sg, strength |-> strength, reason |-> reason]

\* calcRSI
RSIResults ==
    {IndicatorResult("RSI", "BUY", 80, "RSI Oversold"),
     IndicatorResult("RSI", "BUY", 60, "RSI Approaching oversold"),
     IndicatorResult("RSI", "SELL", 80, "RSI Overbought"),
     IndicatorResult("RSI", "SELL", 60, "RSI Approaching overbought"),
     IndicatorResult("RSI", "HOLD", 50, "RSI Neutral")}

\* calcMACD
MACDResults ==
    {IndicatorResult("MACD", "BUY", 85, "MACD Bullish crossover"),
     IndicatorResult("MACD", "SELL", 85, "MACD Bearish crossover"),
     IndicatorResult("MACD", "BUY", 60, "MACD Bullish momentum"),
     IndicatorResult("MACD", "SELL", 60, "MACD Bearish momentum"),
     IndicatorResult("MACD", "HOLD", 50, "MACD Neutral")}

\* calcBollingerBands
BollingerBandsResults ==
    {IndicatorResult("BollingerBands", "BUY", 85, "BB Below lower band"),
     IndicatorResult("BollingerBands", "BUY", 65, "BB Near lower band"),
     IndicatorResult("BollingerBands", "SELL", 85, "BB Above upper band"),
     IndicatorResult("BollingerBands", "SELL", 65, "BB Near upper band"),
     IndicatorResult("BollingerBands", "HOLD", 50, "BB Within bands")}

\* calcVolumeSignal
VolumeResults ==
    {IndicatorResult("Volume", "BUY", 75, "Volume High volume + price up"),
     IndicatorResult("Volume", "SELL", 75, "Volume High volume + price down"),
     IndicatorResult("Volume", "BUY", 55, "Volume Above avg volume + up"),
     IndicatorResult("Volume", "SELL", 55, "Volume Above avg volume + down"),
     IndicatorResult("Volume", "HOLD", 50, "Volume Normal volume")}

\* calcMovingAverages
MovingAveragesResults ==
    {IndicatorResult("MovingAverages", "BUY", 70, "MA uptrend"),
     IndicatorResult("MovingAverages", "SELL", 70, "MA downtrend"),
     IndicatorResult("MovingAverages", "BUY", 55, "MA Above SMA20"),
     IndicatorResult("MovingAverages", "SELL", 55, "MA Below SMA20"),
     IndicatorResult("MovingAverages", "HOLD", 50, "MA flat")}

\* what the five functions return on the candles at hand: one result each
Calculations ==
    [RSI : RSIResults, MACD : MACDResults, BollingerBands : BollingerBandsResults,
     Volume : VolumeResults, MovingAverages : MovingAveragesResults]

\* mutant: MACD runs from 21 candles on, like the other indicators
analyzeIndicators_MACD21(n, strat, calc) ==
    (IF "RSI" \in strat.indicators /\ n >= 15 THEN <<calc.RSI>> ELSE <<>>)
    \o (IF "MACD" \in strat.indicators /\ n >= 21 THEN <<calc.MACD>> ELSE <<>>)
    \o (IF "BollingerBands" \in strat.indicators /\ n >= 21
        THEN <<calc.BollingerBands>> ELSE <<>>)
    \o (IF "Volume" \in strat.indicators /\ n >= 21 THEN <<calc.Volume>> ELSE <<>>)
    \o (IF "MovingAverages" \in strat.indicators /\ n >= 21
        THEN <<calc.MovingAverages>> ELSE <<>>)

\* analyzeIndicators over n candles: results in the order of the five ifs
analyzeIndicators(n, strat, calc) ==
    (IF "RSI" \in strat.indicators /\ n >= 15 THEN <<calc.RSI>> ELSE <<>>)
    \o (IF "MACD" \in strat.indicators /\ n >= 27 THEN <<calc.MACD>> ELSE <<>>)
    \o (IF "BollingerBands" \in strat.indicators /\ n >= 21
        THEN <<calc.BollingerBands>> ELSE <<>>)
    \o (IF "Volume" \in strat.indicators /\ n >= 21 THEN <<calc.Volume>> ELSE <<>>)
    \o (IF "MovingAverages" \in strat.indicators /\ n >= 21
        THEN <<calc.MovingAverages>> ELSE <<>>)

\* multiplier * ind.strength
IndicatorScore(ind) ==
    IF ind.signal = "BUY" THEN ind.strength
    ELSE IF ind.signal = "SELL" THEN -ind.strength
    ELSE 0

\* totalScore after the for loop
RECURSIVE TotalScore(_)
TotalScore(inds) ==
    IF inds = <<>> THEN 0
    ELSE TotalScore(SubSeq(inds, 1, Len(inds) - 1)) + IndicatorScore(inds[Len(inds)])

\* Math.round of a rational: the nearest integer, halves towards +Infinity
MathRound(x) == (2 * x[1] + x[2]) \div (2 * x[2])

\* mutant: the thresholds are exclusive, as the log line of computeSignal prints them
SignalOf_Exclusive(coin, price, inds, strat, avgScore) ==
    [coin |-> coin,
     signal |-> IF RLt(R(strat.buyThreshold), avgScore) THEN "BUY"
                ELSE IF RLt(avgScore, R(strat.sellThreshold)) THEN "SELL"
                ELSE "HOLD",
     score |-> MathRound(avgScore),
     reasons |-> [i \in 1..Len(inds) |-> inds[i].reason],
     indicators |-> inds,
     price |-> price]

\* the body of computeSignal, given the average it decides on
SignalOf(coin, price, inds, strat, avgScore) ==
    [coin |-> coin,
     signal |-> IF RGe(avgScore, R(strat.buyThreshold)) THEN "BUY"
                ELSE IF RLe(avgScore, R(strat.sellThreshold)) THEN "SELL"
                ELSE "HOLD",
     score |-> MathRound(avgScore),
     reasons |-> [i \in 1..Len(inds) |-> inds[i].reason],
     indicators |-> inds,
     price |-> price]

\* mutant: the total is not divided by the number of indicators
computeSignal_Total(coin, price, inds, strat) ==
    SignalOf(coin, price, inds, strat, R(TotalScore(inds)))

\* mutant: an empty indicator list is scored at the buy threshold
computeSignal_EmptyBuys(coin, price, inds, strat) ==
    SignalOf(coin, price, inds, strat,
        IF Len(inds) > 0 THEN RDiv(R(TotalScore(inds)), R(Len(inds)))
        ELSE R(strat.buyThreshold))

\* mutant: the average is taken over the indicators that are not HOLD
computeSignal_SkipHold(coin, price, inds, strat) ==
    LET voting == SelectSeq(inds, LAMBDA ind : ind.signal # "HOLD")
    IN  SignalOf(coin, price, inds, strat,
            IF Len(voting) > 0 THEN RDiv(R(TotalScore(inds)), R(Len(voting))) ELSE Zero)

computeSignal(coin, price, inds, strat) ==
    SignalOf(coin, price, inds, strat,
        IF Len(inds) > 0 THEN RDiv(R(TotalScore(inds)), R(Len(inds))) ELSE Zero)

(***************************************************************************)
(* The state machine.                                                      *)
(***************************************************************************)
\* the requested coins as a set
CoinSet == {coins[i] : i \in 1..Len(coins)}

\* getMarketChart's reply for one coin: it throws, or it returns candles
ChartReplies ==
    {[ok |-> FALSE, candles |-> 0]}
        \cup {[ok |-> TRUE, candles |-> n] :
                n \in {MIN_CANDLES - 1, MIN_CANDLES + 1, MIN_CANDLES + 2}}
\* no chart fetched
NoCharts == [c \in {} |-> 0]

\* coinData[coin].length: the catch block stores [] for a failed fetch
CoinDataLength(reply) == IF reply.ok THEN reply.candles ELSE 0

\* mutant: the window is taken from the first coin's history alone
MinCandles_First(replies) == CoinDataLength(replies[coins[1]])

\* Math.min(...Object.values(coinData).map(d => d.length))
MinCandles(replies) ==
    CHOOSE m \in {CoinDataLength(replies[c]) : c \in DOMAIN replies} :
        \A c \in DOMAIN replies : m <= CoinDataLength(replies[c])

(***************************************************************************)
(* runSimulation (simulator.ts).                                           *)
(***************************************************************************)
\* mutant: the backtest goes on from the portfolio it loaded
SimReset_KeepsLoaded(file, initialCapital) == loadPortfolio(file, initialCapital)

\* let portfolio = loadPortfolio(config.initialCapital), then "Reset portfolio
\* for simulation": the object that was loaded is replaced by a new one
SimReset(file, initialCapital) ==
    LET loaded == loadPortfolio(file, initialCapital)
    IN  [loaded EXCEPT !.capital = initialCapital,
                       !.initialCapital = initialCapital,
                       !.positions = <<>>,
                       !.trades = <<>>,
                       !.totalPnl = Zero,
                       !.totalPnlPercent = Zero]

\* mutant: the step is the quotient alone
Step_Quotient(minCandles, days) == (minCandles - warmup) \div (days * 6)

\* Math.max(1, Math.floor((endIdx - startIdx) / (config.durationDays * 6)))
Step(minCandles, days) ==
    LET quotient == (minCandles - warmup) \div (days * 6)
    IN  IF quotient > 1 THEN quotient ELSE 1

\* startIdx, maxValue and maxDrawdown before the loop
SimLocals(initialCapital) ==
    [i |-> warmup, maxValue |-> initialCapital, maxDrawdown |-> Zero]

\* for (const pos of portfolio.positions) if (pos.coin === coin) pos.currentPrice = currentPrice
ObservePrice(p, coin, price) ==
    [p EXCEPT !.positions =
        [k \in 1..Len(p.positions) |->
            IF p.positions[k].coin = coin
            THEN [p.positions[k] EXCEPT !.currentPrice = price]
            ELSE p.positions[k]]]

\* mutant: the peak is the value of the round that just ended
TrackDrawdown_NoPeak(locals, p, step) ==
    [i |-> locals.i + step,
     maxValue |-> RAdd(p.capital, PositionsValue(p.positions)),
     maxDrawdown |-> locals.maxDrawdown]

\* "Track drawdown" at the end of a round, and i += step
TrackDrawdown(locals, p, step) ==
    LET totalValue == RAdd(p.capital, PositionsValue(p.positions))
        maxValue == RMax(locals.maxValue, totalValue)
        drawdown == RMul(RDiv(RSub(maxValue, totalValue), maxValue), R(100))
    IN  [i |-> locals.i + step,
         maxValue |-> maxValue,
         maxDrawdown |-> RMax(locals.maxDrawdown, drawdown)]

\* "Final update" of the portfolio after the loop
FinalUpdate(p, initialCapital) == UpdateTotals([p EXCEPT !.initialCapital = initialCapital])

\* arr.slice(0, i).reverse().find(b => b.coin === t.coin && b.side === 'BUY'):
\* the index of the latest earlier BUY of the coin, 0 when there is none
LastBuyBefore(trades, k) ==
    LET buys == {j \in 1..(k - 1) :
                    trades[j].coin = trades[k].coin /\ trades[j].side = "BUY"}
    IN  IF buys = {} THEN 0 ELSE CHOOSE j \in buys : \A h \in buys : h <= j

\* mutant: a SELL at the price of its BUY counts as a win
Wins_OrEqual(trades) ==
    {k \in 1..Len(trades) :
        /\ trades[k].side = "SELL"
        /\ LastBuyBefore(trades, k) > 0
        /\ RLe(trades[LastBuyBefore(trades, k)].price, trades[k].price)}

\* const wins = portfolio.trades.filter(...)
Wins(trades) ==
    {k \in 1..Len(trades) :
        /\ trades[k].side = "SELL"
        /\ LastBuyBefore(trades, k) > 0
        /\ RLt(trades[LastBuyBefore(trades, k)].price, trades[k].price)}

\* sellTrades.length > 0 ? (wins.length / sellTrades.length) * 100 : 0
WinRate(trades) ==
    LET sellTrades == {k \in 1..Len(trades) : trades[k].side = "SELL"}
    IN  IF Cardinality(sellTrades) > 0
        THEN RMul(RDiv(R(Cardinality(Wins(trades))), R(Cardinality(sellTrades))), R(100))
        ELSE Zero

\* the SimulationResult: the figures computed from the final portfolio
SimulationResult(p, locals) ==
    [totalReturn |-> p.totalPnl,
     totalReturnPct |-> p.totalPnlPercent,
     maxDrawdown |-> locals.maxDrawdown,
     winRate |-> WinRate(p.trades),
     totalTrades |-> Len(p.trades)]

\* the backtest of the twin: its state file, portfolio, locals and result
NoTwin(initialCapital) ==
    [disk |-> NoFile, portfolio |-> FreshPortfolio(initialCapital),
     sim |-> SimLocals(initialCapital), result |-> <<>>]

\* no second process has started
NoRival(initialCapital) == [pc |-> "none", portfolio |-> FreshPortfolio(initialCapital)]
\* computeSignal has not returned yet
NoTradeSignal ==
    [coin |-> "", signal |-> "NONE", score |-> 0, reasons |-> <<>>,
     indicators |-> <<>>, price |-> Zero]

Init ==
    /\ pc = "idle"
    /\ strategyName \in StrategyNames
    /\ capitalArg \in Capitals
    /\ portfolio = FreshPortfolio(capitalArg)
    /\ disk = NoFile
    /\ signal = NoSignal
    /\ ci = 1
    /\ errors = <<>>
    /\ passes = 0
    /\ chart = NoCharts
    /\ outcome = "none"
    /\ io = <<>>
    /\ durationDays = 1
    /\ sim = SimLocals(capitalArg)
    /\ result = <<>>
    /\ rival = NoRival(capitalArg)
    /\ twin = NoTwin(capitalArg)
    /\ candles = 0
    /\ indicators = <<>>
    /\ tradeSignal = NoTradeSignal
    /\ closes = <<>>
    /\ rsi = <<>>
    /\ ma = <<>>
    /\ AuxInit

\* main with a --strategy that STRATEGIES does not have: process.exit(1)
UnknownStrategy ==
    /\ pc = "idle"
    /\ ~KnownStrategy(strategyName)
    /\ pc' = "exited"
    /\ outcome' = "Unknown strategy"
    /\ UNCHANGED <<auxVars, strategyName, capitalArg, portfolio, disk, signal, ci, errors,
                   passes, chart, io, durationDays, sim, result, rivalVars, signalVars>>

\* main --simulate, runSimulation up to the loop: loadPortfolio, the reset
\* portfolio, the fetch of every coin's history, and the window check
Simulate(replies) ==
    /\ pc = "idle"
    /\ KnownStrategy(strategyName)
    /\ portfolio' = SimReset(disk, capitalArg)
    /\ io' = <<"load">>
    /\ chart' = replies
    /\ sim' = SimLocals(capitalArg)
    /\ result' = <<>>
    /\ IF MinCandles(replies) < MIN_CANDLES
       THEN /\ pc' = "idle"
            /\ outcome' = "Insufficient historical data"
       ELSE /\ pc' = "simLoop"
            /\ outcome' = "running"
    /\ signal' = NoSignal
    /\ ci' = 1
    /\ errors' = <<>>
    /\ UNCHANGED <<auxVars, strategyName, capitalArg, disk, passes, durationDays, rival,
                   signalVars>>

\* the loop body up to computeSignal, while i < endIdx: the held position of
\* the coin gets the new close as currentPrice, and the signal is computed
SimObserve(price, sg) ==
    /\ pc = "simLoop"
    /\ sim.i < MinCandles(chart)
    /\ portfolio' = ObservePrice(portfolio, coins[ci], price)
    /\ signal' = [coin |-> coins[ci], signal |-> sg, price |-> price]
    /\ pc' = "simTrade"
    /\ passes' = IF ci = 1 THEN passes + 1 ELSE passes
    /\ UNCHANGED <<auxVars, strategyName, capitalArg, disk, ci, errors, chart, outcome, io,
                   durationDays, sim, result, rival, signalVars>>

\* portfolio = executeTrade(portfolio, signal, strategy), then the next coin;
\* after the last coin the drawdown is tracked and i moves on by step
SimTrade ==
    /\ pc = "simTrade"
    /\ portfolio' = executeTrade(portfolio, signal, strategy)
    /\ ci' = IF ci = Len(coins) THEN 1 ELSE ci + 1
    /\ sim' = IF ci = Len(coins)
              THEN TrackDrawdown(sim, portfolio', Step(MinCandles(chart), durationDays))
              ELSE sim
    /\ pc' = "simLoop"
    /\ UNCHANGED <<auxVars, strategyName, capitalArg, disk, signal, errors, passes, chart,
                   outcome, io, durationDays, result, rival, signalVars>>

\* the loop ends (i >= endIdx): "Final update", the result, then main saves
\* result.portfolio; runSimulation has returned, and its locals are gone
SimFinish ==
    /\ pc = "simLoop"
    /\ ci = 1
    /\ sim.i >= MinCandles(chart)
    /\ portfolio' = FinalUpdate(portfolio, capitalArg)
    /\ result' = <<SimulationResult(portfolio', sim)>>
    /\ disk' = savePortfolio(portfolio')
    /\ io' = Append(io, "save")
    /\ outcome' = "ok"
    /\ pc' = "idle"
    /\ chart' = NoCharts
    /\ sim' = SimLocals(capitalArg)
    /\ UNCHANGED <<auxVars, strategyName, capitalArg, signal, ci, errors, passes,
                   durationDays, rival, signalVars>>

\* a backtest with no twin beside it, within the passes explored
Backtest(replies) ==
    /\ passes < MaxPasses
    /\ Simulate(replies)
    /\ UNCHANGED twin

\* one observation of a backtest on its own, within the passes explored
BacktestObserve(price, sg) ==
    /\ ci = 1 => passes < MaxPasses
    /\ SimObserve(price, sg)
    /\ UNCHANGED twin

BacktestTrade == SimTrade /\ UNCHANGED twin

BacktestFinish == SimFinish /\ UNCHANGED twin

\* the replies getPrices can give for one coin: a price, or 0 when it is missing
PriceReplies == Prices \cup {Zero}

\* runAutoTrade up to the stop pass: load, then refresh the held positions' prices
AutoStart(failed, replies) ==
    /\ pc = "idle"
    /\ KnownStrategy(strategyName)
    /\ passes < MaxPasses
    /\ LET loaded == loadPortfolio(disk, capitalArg)
       IN  IF Len(loaded.positions) = 0
           THEN /\ ~failed
                /\ replies = [c \in {} |-> Zero]
                /\ portfolio' = loaded
                /\ errors' = <<>>
           ELSE IF failed
           THEN /\ replies = [c \in {} |-> Zero]
                /\ portfolio' = loaded
                /\ errors' = <<"Price update failed">>
           ELSE /\ DOMAIN replies = {loaded.positions[i].coin : i \in 1..Len(loaded.positions)}
                /\ portfolio' = [loaded EXCEPT !.positions =
                        [i \in 1..Len(loaded.positions) |->
                            UpdatePrice(loaded.positions[i], replies[loaded.positions[i].coin])]]
                /\ errors' = <<>>
    /\ signal' = NoSignal
    /\ ci' = 1
    /\ pc' = "autoStops"
    /\ passes' = passes + 1
    /\ io' = <<"load">>
    /\ outcome' = "running"
    /\ chart' = NoCharts
    /\ sim' = SimLocals(capitalArg)
    /\ result' = <<>>
    /\ UNCHANGED <<auxVars, strategyName, capitalArg, disk, durationDays, rivalVars, signalVars>>

\* the stop-loss / take-profit pass over the loaded positions
AutoStops ==
    /\ pc = "autoStops"
    /\ portfolio' = AutoCheckStops(portfolio, strategy, Len(portfolio.positions))
    /\ pc' = "autoCoins"
    /\ UNCHANGED <<auxVars, strategyName, capitalArg, disk, signal, ci, errors, passes, chart,
                   outcome, io, durationDays, sim, result, rivalVars, signalVars>>

\* mutant: the portfolio is saved after every coin
AutoCoin_Saves(price, sg) ==
    /\ pc = "autoCoins"
    /\ ci <= Len(coins)
    /\ signal' = [coin |-> coins[ci], signal |-> sg, price |-> price]
    /\ portfolio' = AutoSignal(portfolio, signal', strategy)
    /\ ci' = ci + 1
    /\ disk' = savePortfolio(portfolio')
    /\ io' = Append(io, "save")
    /\ UNCHANGED <<pc, auxVars, strategyName, capitalArg, errors, passes, chart, outcome,
                   durationDays, sim, result, rivalVars, signalVars>>

\* one iteration of "for (const coin of coins)" whose fetch succeeded
AutoCoin(price, sg) ==
    /\ pc = "autoCoins"
    /\ ci <= Len(coins)
    /\ signal' = [coin |-> coins[ci], signal |-> sg, price |-> price]
    /\ portfolio' = AutoSignal(portfolio, signal', strategy)
    /\ ci' = ci + 1
    /\ UNCHANGED <<pc, auxVars, strategyName, capitalArg, disk, errors, passes, chart, outcome,
                   io, durationDays, sim, result, rivalVars, signalVars>>

\* mutant: a coin's failure ends the cycle
AutoCoinError_Fatal(message) ==
    /\ pc = "autoCoins"
    /\ ci <= Len(coins)
    /\ errors' = Append(errors, <<coins[ci], message>>)
    /\ outcome' = message
    /\ pc' = "idle"
    /\ UNCHANGED <<auxVars, strategyName, capitalArg, portfolio, disk, signal, ci, passes, chart,
                   io, durationDays, sim, result, rivalVars, signalVars>>

\* one iteration whose fetch threw or returned fewer than 30 candles
AutoCoinError(message) ==
    /\ pc = "autoCoins"
    /\ ci <= Len(coins)
    /\ errors' = Append(errors, <<coins[ci], message>>)
    /\ ci' = ci + 1
    /\ UNCHANGED <<pc, auxVars, strategyName, capitalArg, portfolio, disk, signal, passes, chart,
                   outcome, io, durationDays, sim, result, rivalVars, signalVars>>

\* "Update portfolio totals" and "Persist"
AutoFinish ==
    /\ pc = "autoCoins"
    /\ ci > Len(coins)
    /\ portfolio' = UpdateTotals(portfolio)
    /\ disk' = savePortfolio(portfolio')
    /\ io' = Append(io, "save")
    /\ outcome' = "ok"
    /\ pc' = "idle"
    /\ UNCHANGED <<auxVars, strategyName, capitalArg, signal, ci, errors, passes, chart,
                   durationDays, sim, result, rivalVars, signalVars>>

Next ==
    \/ UnknownStrategy
    \/ \E replies \in [CoinSet -> ChartReplies] : Backtest(replies)
    \/ \E price \in Prices, sg \in Signals : BacktestObserve(price, sg)
    \/ BacktestTrade
    \/ BacktestFinish
    \/ \E failed \in BOOLEAN :
        \E replies \in UNION {[cs -> PriceReplies] : cs \in SUBSET CoinSet} :
            AutoStart(failed, replies)
    \/ AutoStops
    \/ \E price \in Prices, sg \in Signals : AutoCoin(price, sg)
    \/ \E message \in {"insufficient data", "fetch failed"} : AutoCoinError(message)
    \/ AutoFinish

Spec == Init /\ [][Next]_vars

(***************************************************************************)
(* The signal pipeline on its own: analyzeIndicators over a number of      *)
(* candles, or a list handed to computeSignal by its caller, and then      *)
(* computeSignal.                                                          *)
(***************************************************************************)
ledgerVars == <<capitalArg, portfolio, disk, signal, ci, errors, passes, chart,
                outcome, io, durationDays, sim, result>>

\* IndicatorResult values a caller may hand to computeSignal: strength 0-100
SuppliedResults ==
    {IndicatorResult("RSI", sg, strength, "supplied") :
        sg \in Signals, strength \in {0, 100}}

\* the lists of at most MaxSupplied supplied results
SuppliedLists == UNION {[1..k -> SuppliedResults] : k \in 0..MaxSupplied}

InitSignal ==
    /\ pc = "analyze"
    /\ strategyName \in DOMAIN STRATEGIES
    /\ capitalArg = R(100)
    /\ portfolio = FreshPortfolio(capitalArg)
    /\ disk = NoFile
    /\ signal = NoSignal
    /\ ci = 1
    /\ errors = <<>>
    /\ passes = 0
    /\ chart = NoCharts
    /\ outcome = "none"
    /\ io = <<>>
    /\ durationDays = 1
    /\ sim = SimLocals(capitalArg)
    /\ result = <<>>
    /\ rival = NoRival(capitalArg)
    /\ twin = NoTwin(capitalArg)
    /\ candles \in 0..MaxCandles
    /\ indicators = <<>>
    /\ tradeSignal = NoTradeSignal
    /\ closes = <<>>
    /\ rsi = <<>>
    /\ ma = <<>>
    /\ AuxInit

\* const indicators = analyzeIndicators(candles, strategy)
Analyze(calc) ==
    /\ pc = "analyze"
    /\ indicators' = analyzeIndicators(candles, strategy, calc)
    /\ pc' = "analyzed"
    /\ UNCHANGED <<auxVars, strategyName, ledgerVars, rivalVars, candles, tradeSignal, closes, rsi, ma>>

\* a caller hands computeSignal a list of its own
Supply(list) ==
    /\ pc = "analyze"
    /\ candles = 0
    /\ indicators' = list
    /\ pc' = "supplied"
    /\ UNCHANGED <<auxVars, strategyName, ledgerVars, rivalVars, candles, tradeSignal, closes, rsi, ma>>

\* const signal = computeSignal(coin, price, indicators, strategy)
Compute(coin, price) ==
    /\ pc \in {"analyzed", "supplied"}
    /\ tradeSignal' = computeSignal(coin, price, indicators, strategy)
    /\ pc' = "signalled"
    /\ UNCHANGED <<auxVars, strategyName, ledgerVars, rivalVars, candles, indicators, closes, rsi, ma>>

NextSignal ==
    \/ \E calc \in Calculations : Analyze(calc)
    \/ \E list \in SuppliedLists : Supply(list)
    \/ \E coin \in CoinSet, price \in Prices : Compute(coin, price)

SpecSignal == InitSignal /\ [][NextSignal]_vars

(***************************************************************************)
(* Two runAutoTrade processes on one state file.  Nothing in loadPortfolio *)
(* or savePortfolio keeps a second process (another heartbeat, a manual    *)
(* run) out while a cycle is between its load and its save.  The second    *)
(* process touches the file twice, so its cycle is two steps: the read,    *)
(* and everything that follows up to the write.                            *)
(***************************************************************************)
\* what the market gives the coin loop for one coin: a price and the signal
\* computed from it, or a failed fetch
Quotes ==
    {[ok |-> TRUE, price |-> price, signal |-> sg] : price \in Prices, sg \in Signals}
        \cup {[ok |-> FALSE, price |-> Zero, signal |-> "NONE"]}

\* the price refresh of the held positions
RefreshPrices(p, replies) ==
    [p EXCEPT !.positions =
        [i \in 1..Len(p.positions) |->
            UpdatePrice(p.positions[i], replies[p.positions[i].coin])]]

\* for (const coin of coins), from the i-th coin on
RECURSIVE AutoCoins(_, _, _, _)
AutoCoins(p, quotes, strat, i) ==
    IF i > Len(coins) THEN p
    ELSE LET q == quotes[coins[i]]
             sig == [coin |-> coins[i], signal |-> q.signal, price |-> q.price]
         IN  AutoCoins(IF q.ok THEN AutoSignal(p, sig, strat) ELSE p, quotes, strat, i + 1)

\* one cycle from the loaded portfolio to the portfolio it saves
AutoCycle(loaded, replies, quotes, strat) ==
    LET refreshed == RefreshPrices(loaded, replies)
        stopped == AutoCheckStops(refreshed, strat, Len(refreshed.positions))
    IN  UpdateTotals(AutoCoins(stopped, quotes, strat, 1))

InitOverlap ==
    /\ Init
    /\ strategyName = "conservative"
    /\ capitalArg = R(100)

\* the second process starts: let portfolio = loadPortfolio(initialCapital)
RivalLoad ==
    /\ rival.pc = "none"
    /\ rival' = [pc |-> "loaded", portfolio |-> loadPortfolio(disk, capitalArg)]
    /\ UNCHANGED <<pc, auxVars, strategyName, ledgerVars, twin, signalVars>>

\* the second process runs its cycle and ends: savePortfolio(portfolio)
RivalSave ==
    /\ rival.pc = "loaded"
    /\ \E replies \in [{rival.portfolio.positions[i].coin :
                            i \in 1..Len(rival.portfolio.positions)} -> PriceReplies] :
        \E quotes \in [CoinSet -> Quotes] :
            LET saved == AutoCycle(rival.portfolio, replies, quotes, strategy)
            IN  /\ rival' = [pc |-> "saved", portfolio |-> saved]
                /\ disk' = savePortfolio(saved)
    /\ UNCHANGED <<pc, auxVars, strategyName, capitalArg, portfolio, signal, ci, errors, passes,
                   chart, outcome, io, durationDays, sim, result, twin, signalVars>>

\* the first process runs one cycle; the second precedes, overlaps or follows it
FirstStart(failed, replies) ==
    /\ outcome = "none"
    /\ AutoStart(failed, replies)

NextOverlap ==
    \/ \E failed \in BOOLEAN :
        \E replies \in UNION {[cs -> PriceReplies] : cs \in SUBSET CoinSet} :
            FirstStart(failed, replies)
    \/ AutoStops
    \/ \E price \in Prices, sg \in Signals : AutoCoin(price, sg)
    \/ \E message \in {"insufficient data", "fetch failed"} : AutoCoinError(message)
    \/ AutoFinish
    \/ RivalLoad
    \/ RivalSave

SpecOverlap == InitOverlap /\ [][NextOverlap]_vars

(***************************************************************************)
(* calcRSI and calcMovingAverages (technical.ts) on price series.  Closes  *)
(* are whole numbers of cents.                                             *)
(***************************************************************************)
\* calcRSI's default period
RSI_PERIOD == 14

\* prices.slice(1).map((p, i) => p - prices[i])
Changes(prices) == [k \in 1..(Len(prices) - 1) |-> prices[k + 1] - prices[k]]

\* changes[i] > 0 ? changes[i] : 0
Gains(prices) ==
    [k \in 1..(Len(prices) - 1) |->
        IF Changes(prices)[k] > 0 THEN Changes(prices)[k] ELSE 0]
\* changes[i] < 0 ? Math.abs(changes[i]) : 0
Losses(prices) ==
    [k \in 1..(Len(prices) - 1) |->
        IF Changes(prices)[k] < 0 THEN -Changes(prices)[k] ELSE 0]

\* reduce((a, b) => a + b, 0)
RECURSIVE SumSeq(_)
SumSeq(xs) == IF xs = <<>> THEN 0 ELSE xs[1] + SumSeq(Tail(xs))

\* the second loop from changes[k] on: (avg * (period - 1) + x) / period.
\* The test of the denominator, which is never 0, has avg evaluated at every
\* iteration instead of all at once after the last.
RECURSIVE Smoothed(_, _, _)
Smoothed(xs, k, avg) ==
    IF avg[2] = 0 \/ k > Len(xs) THEN avg
    ELSE Smoothed(xs, k + 1,
                  Norm(avg[1] * (RSI_PERIOD - 1) + xs[k] * avg[2], avg[2] * RSI_PERIOD))

\* avgGain / avgLoss: the mean of the first period changes, then the second loop
Average(xs) ==
    Smoothed(xs, RSI_PERIOD + 1,
             RDiv(R(SumSeq(SubSeq(xs, 1, RSI_PERIOD))), R(RSI_PERIOD)))

\* rs and rsi
RSIValue(prices) ==
    LET avgLoss == Average(Losses(prices))
        avgGain == Average(Gains(prices))
        rs == IF avgLoss = Zero THEN R(100) ELSE RDiv(avgGain, avgLoss)
    IN  RSub(R(100), RDiv(R(100), RAdd(One, rs)))

calcRSI(prices) ==
    LET value == RSIValue(prices)
        verdict ==
            IF RLt(value, R(30)) THEN IndicatorResult("RSI", "BUY", 80, "RSI Oversold")
            ELSE IF RLt(value, R(40))
            THEN IndicatorResult("RSI", "BUY", 60, "RSI Approaching oversold")
            ELSE IF RLt(R(70), value)
            THEN IndicatorResult("RSI", "SELL", 80, "RSI Overbought")
            ELSE IF RLt(R(60), value)
            THEN IndicatorResult("RSI", "SELL", 60, "RSI Approaching overbought")
            ELSE IndicatorResult("RSI", "HOLD", 50, "RSI Neutral")
    IN  [name |-> verdict.name, value |-> value, signal |-> verdict.signal,
         strength |-> verdict.strength, reason |-> verdict.reason]

\* the last element of calcSMA(prices, period)
LastSMA(prices, period) ==
    RDiv(R(SumSeq(SubSeq(prices, Len(prices) - period + 1, Len(prices)))), R(period))

calcMovingAverages(prices) ==
    LET lastSMA20 == LastSMA(prices, 20)
        lastSMA50 == LastSMA(prices, IF Len(prices) < 50 THEN Len(prices) ELSE 50)
        current == R(prices[Len(prices)])
    IN  IF RLt(lastSMA20, current) /\ RLt(lastSMA50, lastSMA20)
        THEN IndicatorResult("MovingAverages", "BUY", 70, "MA uptrend")
        ELSE IF RLt(current, lastSMA20) /\ RLt(lastSMA20, lastSMA50)
        THEN IndicatorResult("MovingAverages", "SELL", 70, "MA downtrend")
        ELSE IF RLt(lastSMA20, current)
        THEN IndicatorResult("MovingAverages", "BUY", 55, "MA Above SMA20")
        ELSE IF RLt(current, lastSMA20)
        THEN IndicatorResult("MovingAverages", "SELL", 55, "MA Below SMA20")
        ELSE IndicatorResult("MovingAverages", "HOLD", 50, "MA flat")

\* n closes from 100.00 that rise by 1% a step, to the cent
RECURSIVE RisingClose(_)
RisingClose(k) == IF k = 1 THEN 10000 ELSE (RisingClose(k - 1) * 101) \div 100
Rising(n) == [k \in 1..n |-> RisingClose(k)]

\* n closes from 100.00 that fall by 1% a step, to the cent
RECURSIVE FallingClose(_)
FallingClose(k) == IF k = 1 THEN 10000 ELSE (FallingClose(k - 1) * 99) \div 100
Falling(n) == [k \in 1..n |-> FallingClose(k)]

\* n closes that alternate between 100.00 and 110.00
Zigzag(n) == [k \in 1..n |-> IF k % 2 = 1 THEN 10000 ELSE 11000]

\* the series the indicators are run on: every series of RSI_PERIOD + 1
\* closes over two prices, and the rising, falling and alternating ones
SeriesSet ==
    [1..(RSI_PERIOD + 1) -> {10000, 11000}]
        \cup {Rising(n) : n \in (RSI_PERIOD + 1)..MaxSeries}
        \cup {Falling(n) : n \in (RSI_PERIOD + 1)..MaxZigzag}
        \cup {Zigzag(n) : n \in (RSI_PERIOD + 1)..MaxZigzag}

InitIndicators ==
    /\ pc = "series"
    /\ strategyName = "conservative"
    /\ capitalArg = R(100)
    /\ portfolio = FreshPortfolio(capitalArg)
    /\ disk = NoFile
    /\ signal = NoSignal
    /\ ci = 1
    /\ errors = <<>>
    /\ passes = 0
    /\ chart = NoCharts
    /\ outcome = "none"
    /\ io = <<>>
    /\ durationDays = 1
    /\ sim = SimLocals(capitalArg)
    /\ result = <<>>
    /\ rival = NoRival(capitalArg)
    /\ twin = NoTwin(capitalArg)
    /\ candles = 0
    /\ indicators = <<>>
    /\ tradeSignal = NoTradeSignal
    /\ closes \in SeriesSet
    /\ rsi = <<>>
    /\ ma = <<>>
    /\ AuxInit

\* analyzeIndicators: closes.length >= 15, results.push(calcRSI(closes))
CalcRSI ==
    /\ pc = "series"
    /\ rsi = <<>>
    /\ Len(closes) >= RSI_PERIOD + 1
    /\ rsi' = <<calcRSI(closes)>>
    /\ UNCHANGED <<pc, auxVars, strategyName, ledgerVars, rivalVars, candles, indicators,
                   tradeSignal, closes, ma>>

\* analyzeIndicators: closes.length >= 21, results.push(calcMovingAverages(closes))
CalcMovingAverages ==
    /\ pc = "series"
    /\ ma = <<>>
    /\ Len(closes) >= 21
    /\ ma' = <<calcMovingAverages(closes)>>
    /\ UNCHANGED <<pc, auxVars, strategyName, ledgerVars, rivalVars, candles, indicators,
                   tradeSignal, closes, rsi>>

NextIndicators ==
    \/ CalcRSI
    \/ CalcMovingAverages

SpecIndicators == InitIndicators /\ [][NextIndicators]_vars

(***************************************************************************)
(* One backtest run twice, with the same configuration and the same        *)
(* fetched candles, beside two different persisted portfolios: the twin    *)
(* takes every step with the same inputs on its own state file.            *)
(***************************************************************************)
\* state files a first auto-trade cycle can have left behind (each coin bought
\* at 100, or its fetch failed), and no file
LiveFiles(initialCapital, strat) ==
    {NoFile} \cup
    {savePortfolio(AutoCycle(FreshPortfolio(initialCapital), [c \in {} |-> Zero],
                             quotes, strat)) :
        quotes \in [CoinSet -> {q \in Quotes :
                        ~q.ok \/ (q.signal = "BUY" /\ q.price = R(100))}]}

InitTwin ==
    /\ pc = "idle"
    /\ strategyName \in StrategyNames \cap DOMAIN STRATEGIES
    /\ capitalArg = R(100)
    /\ portfolio = FreshPortfolio(capitalArg)
    /\ disk \in LiveFiles(capitalArg, strategy)
    /\ signal = NoSignal
    /\ ci = 1
    /\ errors = <<>>
    /\ passes = 0
    /\ chart = NoCharts
    /\ outcome = "none"
    /\ io = <<>>
    /\ durationDays = 1
    /\ sim = SimLocals(capitalArg)
    /\ result = <<>>
    /\ rival = NoRival(capitalArg)
    /\ \E file \in LiveFiles(capitalArg, strategy) \ {disk} :
            twin = [NoTwin(capitalArg) EXCEPT !.disk = file]
    /\ candles = 0
    /\ indicators = <<>>
    /\ tradeSignal = NoTradeSignal
    /\ closes = <<>>
    /\ rsi = <<>>
    /\ ma = <<>>
    /\ AuxInit

\* both runs start: each loads its own state file
TwinSimulate(replies) ==
    /\ passes < MaxPasses
    /\ Simulate(replies)
    /\ twin' = [twin EXCEPT !.portfolio = SimReset(twin.disk, capitalArg),
                            !.sim = SimLocals(capitalArg),
                            !.result = <<>>]

\* both runs see the same close and compute the same signal
TwinObserve(price, sg) ==
    /\ ci = 1 => passes < MaxPasses
    /\ SimObserve(price, sg)
    /\ twin.sim.i < MinCandles(chart)
    /\ twin' = [twin EXCEPT !.portfolio = ObservePrice(twin.portfolio, coins[ci], price)]

\* both runs call executeTrade with that signal
TwinTrade ==
    /\ SimTrade
    /\ LET traded == executeTrade(twin.portfolio, signal, strategy)
       IN  twin' = [twin EXCEPT
                !.portfolio = traded,
                !.sim = IF ci = Len(coins)
                        THEN TrackDrawdown(twin.sim, traded,
                                           Step(MinCandles(chart), durationDays))
                        ELSE twin.sim]

\* both runs end: each saves into its own state file
TwinFinish ==
    /\ SimFinish
    /\ twin.sim.i >= MinCandles(chart)
    /\ LET final == FinalUpdate(twin.portfolio, capitalArg)
       IN  twin' = [disk |-> savePortfolio(final),
                    portfolio |-> final,
                    sim |-> SimLocals(capitalArg),
                    result |-> <<SimulationResult(final, twin.sim)>>]

NextTwin ==
    \/ \E replies \in [CoinSet -> ChartReplies] : TwinSimulate(replies)
    \/ \E price \in Prices, sg \in Signals : TwinObserve(price, sg)
    \/ TwinTrade
    \/ TwinFinish

SpecTwin == InitTwin /\ [][NextTwin]_vars

(***************************************************************************)
(* One backtest and its sampling of the history: histories of              *)
(* warmup..MaxHistory candles, --simulate 1d..MaxDays d, and a market that *)
(* gives HOLD signals, so that the loop is followed to its end.            *)
(***************************************************************************)
\* getMarketChart's reply when it returns n candles, n from warmup on
HistoryReplies == {[ok |-> TRUE, candles |-> n] : n \in warmup..MaxHistory}

InitSampling ==
    /\ pc = "idle"
    /\ strategyName = "conservative"
    /\ capitalArg = R(100)
    /\ portfolio = FreshPortfolio(capitalArg)
    /\ disk = NoFile
    /\ signal = NoSignal
    /\ ci = 1
    /\ errors = <<>>
    /\ passes = 0
    /\ chart = NoCharts
    /\ outcome = "none"
    /\ io = <<>>
    /\ durationDays \in 1..MaxDays
    /\ sim = SimLocals(capitalArg)
    /\ result = <<>>
    /\ rival = NoRival(capitalArg)
    /\ twin = NoTwin(capitalArg)
    /\ candles = 0
    /\ indicators = <<>>
    /\ tradeSignal = NoTradeSignal
    /\ closes = <<>>
    /\ rsi = <<>>
    /\ ma = <<>>
    /\ AuxInit

\* the one backtest of the behaviour starts
SampleStart(replies) ==
    /\ outcome = "none"
    /\ Simulate(replies)
    /\ UNCHANGED twin

\* the loop body up to computeSignal, which says HOLD
SampleObserve(price) ==
    /\ SimObserve(price, "HOLD")
    /\ UNCHANGED twin

NextSampling ==
    \/ \E replies \in [CoinSet -> HistoryReplies] : SampleStart(replies)
    \/ \E price \in Prices : SampleObserve(price)
    \/ BacktestTrade
    \/ BacktestFinish

\* SimTrade can be taken: executeTrade always returns
TradeEnabled == pc = "simTrade"

\* SimFinish can be taken: the while condition i < endIdx is false
FinishEnabled == pc = "simLoop" /\ ci = 1 /\ sim.i >= MinCandles(chart)

\* the process runs on while it has a step to take: weak fairness of each loop
\* step, with the guards of SimTrade and SimFinish written out
SpecSampling ==
    /\ InitSampling
    /\ [][NextSampling]_vars
    /\ WF_vars(\E price \in Prices : SampleObserve(price))
    /\ ([]<>(~TradeEnabled) \/ []<><<BacktestTrade>>_vars)
    /\ ([]<>(~FinishEnabled) \/ []<><<BacktestFinish>>_vars)

(***************************************************************************)
(* One candle window scored under every preset: analyzeIndicators and      *)
(* computeSignal run with conservative, balanced and aggressive on the     *)
(* same candles, as three commands that differ in --strategy alone.        *)
(***************************************************************************)
InitPresets ==
    /\ InitSignal
    /\ strategyName = "conservative"

\* the signal of every preset for the window whose indicator functions return calc
ScorePresets(calc, price) ==
    /\ pc = "analyze"
    /\ panel' = [name \in DOMAIN STRATEGIES |->
                    computeSignal(coins[1], price,
                        analyzeIndicators(candles, STRATEGIES[name], calc),
                        STRATEGIES[name])]
    /\ pc' = "scored"
    /\ UNCHANGED <<strategyName, ledgerVars, rivalVars, signalVars, now, ids, coinData>>

NextPresets == \E calc \in Calculations, price \in Prices : ScorePresets(calc, price)

SpecPresets == InitPresets /\ [][NextPresets]_vars

(***************************************************************************)
(* The backtest loop body with the clock: every trade that executeTrade    *)
(* pushes takes its id from Date.now() at the push.  The loop is           *)
(* synchronous, so between two pushes a millisecond may or may not have    *)
(* passed.                                                                 *)
(***************************************************************************)
\* id: `T${Date.now()}`
TradeId(reading) == <<"T", reading>>

\* the clock readings of the first n pushes of a call that starts at clock
\* reading start, elapsed[k] ms having passed before push k
RECURSIVE Readings(_, _, _)
Readings(start, elapsed, n) ==
    IF n = 0 THEN <<>>
    ELSE LET before == Readings(start, elapsed, n - 1)
             last == IF n = 1 THEN start ELSE before[n - 1]
         IN  Append(before, last + elapsed[n])

InitIds ==
    /\ Init
    /\ strategyName = "conservative"
    /\ capitalArg = R(100)

\* one pass of the body of "for (const coin of config.coins)": the held
\* position gets the close, executeTrade runs, and each trade it pushed has
\* the id read from the clock at its push
ClockedTrade(coin, price, sg, elapsed) ==
    /\ pc = "idle"
    /\ passes < MaxCalls
    /\ LET traded == executeTrade(ObservePrice(portfolio, coin, price),
                                  [coin |-> coin, signal |-> sg, price |-> price], strategy)
           pushes == Len(traded.trades) - Len(portfolio.trades)
           readings == Readings(now, elapsed, pushes)
       IN  /\ \A k \in 1..pushes : readings[k] <= MaxClock
           /\ portfolio' = traded
           /\ ids' = ids \o [k \in 1..pushes |-> TradeId(readings[k])]
           /\ now' = IF pushes = 0 THEN now ELSE readings[pushes]
    /\ signal' = [coin |-> coin, signal |-> sg, price |-> price]
    /\ passes' = passes + 1
    /\ UNCHANGED <<pc, strategyName, capitalArg, disk, ci, errors, chart,
                   outcome, io, durationDays, sim, result, rivalVars, signalVars, panel,
                   coinData>>

NextIds ==
    \E coin \in CoinSet, price \in Prices, sg \in Signals :
        \E elapsed \in [1..Len(coins) -> 0..1] : ClockedTrade(coin, price, sg, elapsed)

SpecIds == InitIds /\ [][NextIds]_vars

(***************************************************************************)
(* One backtest run twice on two histories that differ in one close.  The  *)
(* indicator arithmetic is not modelled: the signal is what                *)
(* analyzeIndicators and computeSignal make of the window they are handed, *)
(* so the twin gets the signal of the run when it is handed the same       *)
(* window, and any signal when it is not.                                  *)
(***************************************************************************)
\* mutant: the window is the tail of the whole history
Window_WholeTail(series, i) ==
    SubSeq(series, IF Len(series) > WINDOW THEN Len(series) - WINDOW + 1 ELSE 1,
           Len(series))

\* coinData[coin].slice(0, i + 1)
SliceTo(series, i) == SubSeq(series, 1, IF i + 1 < Len(series) THEN i + 1 ELSE Len(series))

\* candles.slice(-60)
SliceLast(candleSeq) ==
    SubSeq(candleSeq, IF Len(candleSeq) > WINDOW THEN Len(candleSeq) - WINDOW + 1 ELSE 1,
           Len(candleSeq))

\* the candles analyzeIndicators gets at index i: coinData[coin].slice(0, i + 1).slice(-60)
Window(series, i) == SliceLast(SliceTo(series, i))

\* candles[candles.length - 1].close
CurrentPrice(series, i) == SliceTo(series, i)[Len(SliceTo(series, i))]

\* a history of n closes of 100
Flat(n) == [j \in 1..n |-> R(100)]

\* the index (from 0) of the close that is 90 in the twin's BTC history
ChangedAt == {0, warmup + 2, HistoryLength - 1}

InitLookahead ==
    /\ pc = "idle"
    /\ strategyName = "conservative"
    /\ capitalArg = R(100)
    /\ portfolio = FreshPortfolio(capitalArg)
    /\ disk = NoFile
    /\ signal = NoSignal
    /\ ci = 1
    /\ errors = <<>>
    /\ passes = 0
    /\ chart = NoCharts
    /\ outcome = "none"
    /\ io = <<>>
    /\ durationDays = 1
    /\ sim = SimLocals(capitalArg)
    /\ result = <<>>
    /\ rival = NoRival(capitalArg)
    /\ twin = [disk |-> NoFile, portfolio |-> FreshPortfolio(capitalArg),
               sim |-> SimLocals(capitalArg), result |-> <<>>, signal |-> NoSignal]
    /\ candles = 0
    /\ indicators = <<>>
    /\ tradeSignal = NoTradeSignal
    /\ closes = <<>>
    /\ rsi = <<>>
    /\ ma = <<>>
    /\ panel = <<>>
    /\ now = 0
    /\ ids = <<>>
    /\ \E k \in ChangedAt :
        coinData = [run |-> [c \in CoinSet |-> Flat(HistoryLength)],
                    twin |-> [c \in CoinSet |->
                                IF c = coins[1]
                                THEN [Flat(HistoryLength) EXCEPT ![k + 1] = R(90)]
                                ELSE Flat(HistoryLength)]]

\* both runs fetch their histories, of the same lengths, and reset their portfolios
LookStart ==
    /\ outcome = "none"
    /\ Simulate([c \in CoinSet |-> [ok |-> TRUE, candles |-> Len(coinData.run[c])]])
    /\ twin' = [twin EXCEPT !.portfolio = SimReset(twin.disk, capitalArg),
                            !.sim = SimLocals(capitalArg)]

\* each run sets the close of its own history on the held position; the
\* run's signal is computed.  SELL signals are explored for the coin whose
\* history differs, not for the others
LookObserve(sg) ==
    /\ ci # 1 => sg # "SELL"
    /\ SimObserve(CurrentPrice(coinData.run[coins[ci]], sim.i), sg)
    /\ twin' = [twin EXCEPT !.portfolio =
                    ObservePrice(twin.portfolio, coins[ci],
                                 CurrentPrice(coinData.twin[coins[ci]], sim.i))]

\* the twin's signal is computed from its window, and both runs call executeTrade
LookTrade ==
    /\ SimTrade
    /\ \E sg \in Signals :
        /\ Window(coinData.twin[coins[ci]], sim.i) = Window(coinData.run[coins[ci]], sim.i)
                => sg = signal.signal
        /\ LET twinSignal == [coin |-> coins[ci], signal |-> sg,
                              price |-> CurrentPrice(coinData.twin[coins[ci]], sim.i)]
               traded == executeTrade(twin.portfolio, twinSignal, strategy)
           IN  twin' = [twin EXCEPT
                    !.signal = twinSignal,
                    !.portfolio = traded,
                    !.sim = IF ci = Len(coins)
                            THEN TrackDrawdown(twin.sim, traded,
                                               Step(MinCandles(chart), durationDays))
                            ELSE twin.sim]

\* both runs end
LookFinish ==
    /\ SimFinish
    /\ LET final == FinalUpdate(twin.portfolio, capitalArg)
       IN  twin' = [disk |-> savePortfolio(final),
                    portfolio |-> final,
                    sim |-> SimLocals(capitalArg),
                    result |-> <<SimulationResult(final, twin.sim)>>,
                    signal |-> twin.signal]

NextLookahead ==
    \/ LookStart
    \/ \E sg \in Signals : LookObserve(sg)
    \/ LookTrade
    \/ LookFinish

SpecLookahead == InitLookahead /\ [][NextLookahead]_vars

(***************************************************************************)
(* Vocabulary of the properties.                                           *)
(***************************************************************************)
\* capital + sum of quantity x (currentPrice, or entryPrice when none is known)
TotalValue(p) == RAdd(p.capital, PositionsValue(p.positions))

\* the position is at or beyond its stop-loss or take-profit level
AtStopLoss(pos) ==
    Truthy(pos.currentPrice) /\ RLe(PnlPct(pos), RNeg(strategy.stopLossPct))
AtTakeProfit(pos) ==
    Truthy(pos.currentPrice) /\ RGe(PnlPct(pos), strategy.takeProfitPct)

\* the last trade of the log
LastTrade(p) == p.trades[Len(p.trades)]

\* the step is a return of executeTrade in the backtest loop
SimTradeStep == pc = "simTrade" /\ pc' = "simLoop"
\* the step is an iteration of runAutoTrade's coin loop whose fetch succeeded
AutoCoinStep == pc = "autoCoins" /\ ci' = ci + 1 /\ signal'.coin = coins[ci]

SameLedger(p, q) ==
    /\ q.capital = p.capital
    /\ q.positions = p.positions
    /\ q.trades = p.trades

(***************************************************************************)
(* C1.  After every executeTrade call of the backtest loop returns,        *)
(* capital + the value of the open positions = initialCapital + totalPnl.  *)
(* The code breaks it: a BUY for a coin already held returns before        *)
(* "Update totals", after the driver has moved the position's price.       *)
(***************************************************************************)
C1_CapitalConservation ==
    pc = "simLoop" =>
        TotalValue(portfolio) = RAdd(portfolio.initialCapital, portfolio.totalPnl)

(***************************************************************************)
(* C2.  In every reachable state the positions list holds at most one      *)
(* open position per coin.                                                 *)
(***************************************************************************)
C2_PositionUniqueness ==
    \A i, j \in 1..Len(portfolio.positions) :
        i # j => portfolio.positions[i].coin # portfolio.positions[j].coin

\* an auto-trade BUY signal was handled for a coin that was already held
C2_Witness ==
    /\ pc = "autoCoins"
    /\ signal.signal = "BUY"
    /\ HasPosition(portfolio.positions, signal.coin)
    /\ Len(portfolio.positions) = Len(coins)
    /\ portfolio.trades # <<>>
    /\ ~(LastTrade(portfolio).side = "BUY" /\ LastTrade(portfolio).coin = signal.coin)

(***************************************************************************)
(* C3.  As claimed: a successful executeTrade BUY spends maxPositionPct    *)
(* percent of the capital left after the 5% reserve (capital 100, 20% ->   *)
(* 19 spent).  The code does not.                                          *)
(***************************************************************************)
BuySucceeded ==
    /\ SimTradeStep
    /\ signal.signal = "BUY"
    /\ Len(portfolio'.trades) > Len(portfolio.trades)

C3_Original ==
    [][BuySucceeded =>
        portfolio'.trades[Len(portfolio.trades) + 1].total =
            RMul(RMul(portfolio.capital, <<19, 20>>),
                 RDiv(strategy.maxPositionPct, R(100)))]_vars

(***************************************************************************)
(* C3 as amended.  A successful executeTrade BUY spends the smaller of     *)
(* maxPositionPct percent of the capital and 95% of the capital, and opens *)
(* a position of spend / price at the signal price; with capital 100,      *)
(* price 100 and maxPositionPct 20 the result is capital 80 and one open   *)
(* position {BTC, entryPrice 100, quantity 0.2}.                           *)
(***************************************************************************)
C3_BuySizing ==
    [][BuySucceeded =>
        LET t == portfolio'.trades[Len(portfolio.trades) + 1]
            spend == RMin(RMul(portfolio.capital, RDiv(strategy.maxPositionPct, R(100))),
                          RMul(portfolio.capital, <<19, 20>>))
        IN  /\ t.side = "BUY" /\ t.coin = signal.coin /\ t.price = signal.price
            /\ t.total = spend
            /\ RMul(t.quantity, signal.price) = spend
            /\ \E i \in 1..Len(portfolio'.positions) :
                /\ portfolio'.positions[i].coin = signal.coin
                /\ portfolio'.positions[i].entryPrice = signal.price
                /\ portfolio'.positions[i].quantity = t.quantity
            /\ portfolio.positions = <<>> =>
                portfolio'.capital = RSub(portfolio.capital, spend)
            /\ (/\ portfolio.capital = R(100)
                /\ portfolio.positions = <<>>
                /\ signal.price = R(100)
                /\ strategy.maxPositionPct = R(20))
               => /\ portfolio'.capital = R(80)
                  /\ Len(portfolio'.positions) = 1
                  /\ portfolio'.positions[1].quantity = <<1, 5>>]_vars

\* the scenario has run: capital 100, BUY BTC at 100 under maxPositionPct 20
C3_Witness ==
    /\ pc = "simLoop"
    /\ strategy.maxPositionPct = R(20)
    /\ portfolio.initialCapital = R(100)
    /\ portfolio.capital = R(80)
    /\ Len(portfolio.positions) = 1
    /\ portfolio.positions[1].coin = "BTC"
    /\ portfolio.positions[1].entryPrice = R(100)
    /\ portfolio.positions[1].quantity = <<1, 5>>

(***************************************************************************)
(* C4.  The reserve is never breached by a BUY: within an auto-trade       *)
(* cycle capital >= 10 is preserved by every step (so a cycle that loads   *)
(* capital >= 10 keeps capital >= 10 throughout), and after an             *)
(* executeTrade call with a BUY signal capital is at least 5% of the       *)
(* capital before the call.                                                *)
(***************************************************************************)
C4_ReserveKept ==
    [][/\ (pc \in {"autoStops", "autoCoins"} /\ RGe(portfolio.capital, R(10)))
            => RGe(portfolio'.capital, R(10))
       /\ (SimTradeStep /\ signal.signal = "BUY")
            => RGe(portfolio'.capital, RMul(portfolio.capital, <<1, 20>>))]_vars

\* an auto-trade BUY has just been executed out of a capital above the reserve
C4_Witness ==
    /\ pc = "autoCoins"
    /\ signal.signal = "BUY"
    /\ portfolio.trades # <<>>
    /\ LastTrade(portfolio).side = "BUY"
    /\ LastTrade(portfolio).coin = signal.coin
    /\ RGe(portfolio.capital, R(10))
    /\ RLt(portfolio.capital, R(12))

(***************************************************************************)
(* C5.  Every BUY trade in the trade log has total >= 1 (a BUY whose       *)
(* spend is below the floor is a no-op).  The auto-trade path breaks it:   *)
(* it compares the available capital, not the spend, with the floor.       *)
(***************************************************************************)
C5_TradeFloor ==
    \A k \in 1..Len(portfolio.trades) :
        portfolio.trades[k].side = "BUY" => RGe(portfolio.trades[k].total, One)

(***************************************************************************)
(* C6.  After every executeTrade call returns, no open position with a     *)
(* known currentPrice is at or beyond its stop-loss or take-profit level,  *)
(* whatever the signal was.  The code breaks it: its early returns skip    *)
(* the stop / target loop.                                                 *)
(***************************************************************************)
C6_StopsEnforced ==
    pc = "simLoop" =>
        \A i \in 1..Len(portfolio.positions) :
            /\ ~AtStopLoss(portfolio.positions[i])
            /\ ~AtTakeProfit(portfolio.positions[i])

(***************************************************************************)
(* C7.  When a BUY signal arrives in executeTrade for a held coin whose    *)
(* position is at or beyond its stop-loss or take-profit level, the call   *)
(* first closes the position by the stop / target rule and then opens a    *)
(* new position at the signal price.  executeTrade breaks it: the BUY      *)
(* returns early on the held coin and the loop behind it never runs.       *)
(***************************************************************************)
C7_StopBeforeSignal ==
    [][(/\ SimTradeStep
        /\ signal.signal = "BUY"
        /\ \E i \in 1..Len(portfolio.positions) :
            /\ portfolio.positions[i].coin = signal.coin
            /\ (AtStopLoss(portfolio.positions[i]) \/ AtTakeProfit(portfolio.positions[i])))
       => /\ Len(portfolio'.trades) >= Len(portfolio.trades) + 2
          /\ portfolio'.trades[Len(portfolio.trades) + 1].side = "SELL"
          /\ portfolio'.trades[Len(portfolio.trades) + 1].coin = signal.coin
          /\ portfolio'.trades[Len(portfolio.trades) + 2].side = "BUY"
          /\ portfolio'.trades[Len(portfolio.trades) + 2].coin = signal.coin
          /\ \E j \in 1..Len(portfolio'.positions) :
                /\ portfolio'.positions[j].coin = signal.coin
                /\ portfolio'.positions[j].entryPrice = signal.price]_vars

(***************************************************************************)
(* C8.  When the stop-loss or take-profit rule fires for a position, in    *)
(* executeTrade's loop or in runAutoTrade's first pass, the position is    *)
(* removed, capital increases by exactly quantity x currentPrice, and      *)
(* exactly one SELL trade is appended for it, at currentPrice, whose       *)
(* reason names the rule that fired.  Positions the rule does not fire for *)
(* stay open.                                                              *)
(***************************************************************************)
StopReasons == {"Stop-loss at", "Stop-loss triggered at"}
TakeReasons == {"Take-profit at", "Take-profit triggered at"}

RECURSIVE SumExits(_, _)
SumExits(positions, S) ==
    IF S = {} THEN Zero
    ELSE LET i == CHOOSE x \in S : TRUE
         IN  RAdd(RMul(positions[i].quantity, positions[i].currentPrice),
                  SumExits(positions, S \ {i}))

\* P is the portfolio before the step and Q after it; the step first books
\* nsig trades for the signal, and the positions in excluded were closed by it
ExitsBooked(P, Q, excluded, nsig) ==
    LET fired == {i \in (1..Len(P.positions)) \ excluded :
                    AtStopLoss(P.positions[i]) \/ AtTakeProfit(P.positions[i])}
        first == Len(P.trades) + nsig + 1
        sigDelta == IF nsig = 0 THEN Zero
                    ELSE IF Q.trades[Len(P.trades) + 1].side = "BUY"
                    THEN RNeg(Q.trades[Len(P.trades) + 1].total)
                    ELSE Q.trades[Len(P.trades) + 1].total
    IN  /\ Len(Q.trades) = Len(P.trades) + nsig + Cardinality(fired)
        /\ \A i \in fired :
            LET pos == P.positions[i]
            IN  /\ \A j \in 1..Len(Q.positions) : Q.positions[j].coin # pos.coin
                /\ Cardinality({k \in first..Len(Q.trades) : Q.trades[k].coin = pos.coin}) = 1
                /\ \E k \in first..Len(Q.trades) :
                    /\ Q.trades[k].coin = pos.coin
                    /\ Q.trades[k].side = "SELL"
                    /\ Q.trades[k].price = pos.currentPrice
                    /\ Q.trades[k].quantity = pos.quantity
                    /\ Q.trades[k].total = RMul(pos.quantity, pos.currentPrice)
                    /\ Q.trades[k].reason \in
                        (IF AtStopLoss(pos) THEN StopReasons ELSE TakeReasons)
        /\ \A i \in (1..Len(P.positions)) \ (fired \cup excluded) :
            \E j \in 1..Len(Q.positions) : Q.positions[j] = P.positions[i]
        /\ Q.capital = RAdd(RAdd(P.capital, sigDelta), SumExits(P.positions, fired))

\* executeTrade reached its stop / target loop
LoopReached ==
    /\ SimTradeStep
    /\ signal.signal = "HOLD" \/ Len(portfolio'.trades) > Len(portfolio.trades)

C8_ForcedExit ==
    [][/\ LoopReached =>
            ExitsBooked(portfolio, portfolio',
                {i \in 1..Len(portfolio.positions) :
                    signal.signal = "SELL" /\ portfolio.positions[i].coin = signal.coin},
                IF signal.signal = "HOLD" THEN 0 ELSE 1)
       /\ (pc = "autoStops" /\ pc' = "autoCoins") =>
            ExitsBooked(portfolio, portfolio', {}, 0)]_vars

\* the stop-loss rule has fired at 90 for a position entered at 100 under
\* stopLossPct 5: the exit is the last trade and the BUY it closes precedes it
C8_Witness ==
    /\ pc = "simLoop"
    /\ strategy.stopLossPct = R(5)
    /\ Len(portfolio.trades) >= 2
    /\ LastTrade(portfolio).reason = "Stop-loss at"
    /\ LastTrade(portfolio).price = R(90)
    /\ \E k \in 1..(Len(portfolio.trades) - 1) :
        /\ portfolio.trades[k].side = "BUY"
        /\ portfolio.trades[k].coin = LastTrade(portfolio).coin
        /\ portfolio.trades[k].price = R(100)
        /\ portfolio.trades[k].quantity = LastTrade(portfolio).quantity
    /\ \A j \in 1..Len(portfolio.positions) :
        portfolio.positions[j].coin # LastTrade(portfolio).coin

(***************************************************************************)
(* C9.  A BUY signal for a coin that already has an open position leaves   *)
(* capital, the positions list and the trade log unchanged, in executeTrade*)
(* and in runAutoTrade, and records no error.                              *)
(***************************************************************************)
C9_NoDoubleTrade ==
    [][/\ (/\ SimTradeStep
           /\ signal.signal = "BUY"
           /\ \E i \in 1..Len(portfolio.positions) :
                portfolio.positions[i].coin = signal.coin)
            => SameLedger(portfolio, portfolio')
       /\ (/\ AutoCoinStep
           /\ signal'.signal = "BUY"
           /\ \E i \in 1..Len(portfolio.positions) :
                portfolio.positions[i].coin = signal'.coin)
            => SameLedger(portfolio, portfolio') /\ errors' = errors]_vars

\* executeTrade has returned from a BUY for a coin that was held before the call
C9_Witness ==
    /\ pc = "simLoop"
    /\ signal.signal = "BUY"
    /\ \E i \in 1..Len(portfolio.positions) :
        /\ portfolio.positions[i].coin = signal.coin
        /\ Truthy(portfolio.positions[i].currentPrice)

(***************************************************************************)
(* C10.  A SELL signal for a coin with an open position removes that       *)
(* position, appends exactly one SELL trade with that coin, the signal     *)
(* price and the position's quantity, and increases capital by exactly     *)
(* quantity x signal price (forced exits of other coins that executeTrade  *)
(* books in the same call add their own proceeds, C8); a SELL signal for a *)
(* coin with no open position leaves capital, positions and trades         *)
(* unchanged and records no error.                                         *)
(***************************************************************************)
RECURSIVE SumTotals(_, _, _)
SumTotals(trades, from, to) ==
    IF from > to THEN Zero
    ELSE RAdd(trades[from].total, SumTotals(trades, from + 1, to))

SellEffect(P, Q, sig) ==
    IF \E i \in 1..Len(P.positions) : P.positions[i].coin = sig.coin
    THEN LET pos == P.positions[CHOOSE i \in 1..Len(P.positions) :
                                    P.positions[i].coin = sig.coin]
             n == Len(P.trades)
             proceeds == RMul(pos.quantity, sig.price)
         IN  /\ \A j \in 1..Len(Q.positions) : Q.positions[j].coin # sig.coin
             /\ Len(Q.trades) > n
             /\ Cardinality({k \in (n + 1)..Len(Q.trades) : Q.trades[k].coin = sig.coin}) = 1
             /\ Q.trades[n + 1].coin = sig.coin
             /\ Q.trades[n + 1].side = "SELL"
             /\ Q.trades[n + 1].price = sig.price
             /\ Q.trades[n + 1].quantity = pos.quantity
             /\ \A k \in (n + 2)..Len(Q.trades) :
                    Q.trades[k].reason \in StopReasons \cup TakeReasons
             /\ Q.capital = RAdd(RAdd(P.capital, proceeds),
                                 SumTotals(Q.trades, n + 2, Len(Q.trades)))
             /\ (\A i \in 1..Len(P.positions) :
                    P.positions[i].coin # sig.coin =>
                        ~AtStopLoss(P.positions[i]) /\ ~AtTakeProfit(P.positions[i]))
                => /\ Len(Q.trades) = n + 1
                   /\ Q.capital = RAdd(P.capital, proceeds)
    ELSE SameLedger(P, Q)

TradesOf(p) == {p.trades[k] : k \in 1..Len(p.trades)}

C11_NoLostUpdate ==
    (pc = "idle" /\ outcome = "ok" /\ rival.pc = "saved") =>
        (TradesOf(portfolio) \cup TradesOf(rival.portfolio))
            \subseteq TradesOf(Parse(disk[1]))

(***************************************************************************)
(* C12.  In an auto-trade cycle a coin whose fetch or analysis fails adds  *)
(* exactly one error for that coin to the errors list and executes no      *)
(* trade; the loop goes on with the next coin, in order; the cycle ends    *)
(* only after every coin was processed, and then the portfolio is saved    *)
(* and the errors are returned.                                            *)
(***************************************************************************)
C12_CoinErrorsNonFatal ==
    [][/\ (pc = "autoCoins" /\ errors' # errors)
            => /\ Len(errors') = Len(errors) + 1
               /\ SubSeq(errors', 1, Len(errors)) = errors
               /\ errors'[Len(errors')][1] = coins[ci]
               /\ SameLedger(portfolio, portfolio')
               /\ disk' = disk
               /\ pc' = "autoCoins"
       /\ (pc = "autoCoins" /\ pc' = "autoCoins") => ci' = ci + 1
       /\ (pc = "autoCoins" /\ pc' # "autoCoins")
            => /\ ci = Len(coins) + 1
               /\ pc' = "idle"
               /\ outcome' = "ok"
               /\ errors' = errors
               /\ disk' # NoFile
               /\ Parse(disk'[1]).trades = portfolio.trades]_vars

\* a cycle has ended in which BTC failed and ETH was bought: the error is
\* returned and the trade is in the saved portfolio
C12_Witness ==
    /\ pc = "idle"
    /\ outcome = "ok"
    /\ chart = NoCharts
    /\ Len(errors) = 1
    /\ errors[1][1] = "BTC"
    /\ signal.coin = "ETH"
    /\ signal.signal = "BUY"
    /\ portfolio.trades # <<>>
    /\ LastTrade(portfolio).coin = "ETH"
    /\ LastTrade(portfolio) \in TradesOf(Parse(disk[1]))

(***************************************************************************)
(* C13.  When runSimulation's fetch fails for one coin while every other   *)
(* coin returns at least 30 candles, the run does not abort: it goes on to *)
(* simulate the remaining coins.  The code breaks it: the failed coin is   *)
(* given an empty history, the minimum candle count is 0, and the run      *)
(* throws.                                                                 *)
(***************************************************************************)
\* the step is runSimulation's start: the load and the fetch of the histories
SimulateStep == pc = "idle" /\ io' = <<"load">> /\ DOMAIN chart' = CoinSet

C13_FetchFailureSkipsCoin ==
    [][(/\ SimulateStep
        /\ \E c \in CoinSet :
            /\ ~chart'[c].ok
            /\ \A d \in CoinSet \ {c} : chart'[d].ok /\ chart'[d].candles >= 30)
       => /\ pc' = "simLoop"
          /\ outcome' # "Insufficient historical data"]_vars

(***************************************************************************)
(* C14.  If some requested coin has fewer than 30 candles, runSimulation   *)
(* fails with the insufficient-data error before any executeTrade call,    *)
(* and nothing is persisted: the state file is as it was and no save has   *)
(* been made.                                                              *)
(***************************************************************************)
C14_InsufficientDataAbort ==
    [][/\ (/\ SimulateStep
           /\ \E c \in CoinSet : ~chart'[c].ok \/ chart'[c].candles < 30)
            => /\ outcome' = "Insufficient historical data"
               /\ pc' = "idle"
               /\ disk' = disk
       /\ outcome = "Insufficient historical data"
            => /\ pc = "idle"
               /\ portfolio.trades = <<>>
               /\ io = <<"load">>]_vars

\* a backtest has been refused for 29 candles of ETH while the state file
\* holds the trades of an earlier command
C14_Witness ==
    /\ outcome = "Insufficient historical data"
    /\ chart["BTC"].ok /\ chart["BTC"].candles >= 30
    /\ chart["ETH"].ok /\ chart["ETH"].candles = 29
    /\ disk # NoFile
    /\ Parse(disk[1]).trades # <<>>

(***************************************************************************)
(* C15.  In every runAutoTrade cycle loadPortfolio is called exactly once, *)
(* before any mutation of the portfolio, and savePortfolio exactly once,   *)
(* after the stop / target pass and after all coins: the state file does   *)
(* not change between two coins, and what is saved holds every trade of    *)
(* the cycle, also when coins failed.                                      *)
(***************************************************************************)
C15_PersistenceAtBoundaries ==
    [][/\ (pc = "idle" /\ pc' = "autoStops")
            => /\ io' = <<"load">>
               /\ disk' = disk
               /\ portfolio'.trades =
                    (IF disk = NoFile THEN <<>> ELSE Parse(disk[1]).trades)
               /\ portfolio'.capital =
                    (IF disk = NoFile THEN capitalArg ELSE Parse(disk[1]).capital)
       /\ (pc \in {"autoStops", "autoCoins"} /\ pc' \in {"autoStops", "autoCoins"})
            => io' = <<"load">> /\ disk' = disk
       /\ (pc \in {"autoStops", "autoCoins"} /\ pc' \notin {"autoStops", "autoCoins"})
            => /\ pc = "autoCoins"
               /\ ci = Len(coins) + 1
               /\ io' = <<"load", "save">>
               /\ disk' # NoFile
               /\ Parse(disk'[1]).trades = portfolio.trades
               /\ Parse(disk'[1]).capital = portfolio.capital]_vars

\* a cycle that loaded a saved portfolio has saved once, after a failed coin
\* and a trade of its own
C15_Witness ==
    /\ pc = "idle"
    /\ chart = NoCharts
    /\ io = <<"load", "save">>
    /\ passes = 2
    /\ errors # <<>>
    /\ Len(portfolio.trades) >= 2
    /\ LastTrade(portfolio).coin = signal.coin
    /\ Parse(disk[1]).trades = portfolio.trades

RECURSIVE SignedSum(_, _)
SignedSum(inds, k) ==
    IF k = 0 THEN 0
    ELSE SignedSum(inds, k - 1)
            + (CASE inds[k].signal = "BUY" -> inds[k].strength
                 [] inds[k].signal = "SELL" -> 0 - inds[k].strength
                 [] OTHER -> 0)

\* computeSignal has returned
Signalled == pc = "signalled"

C18_EmptyListHolds ==
    (Signalled /\ indicators = <<>>) =>
        /\ tradeSignal.score = 0
        /\ tradeSignal.signal = "HOLD"
        /\ tradeSignal.reasons = <<>>

\* balanced, 14 candles: analyzeIndicators returned nothing and computeSignal
\* was called with it
C18_Witness ==
    /\ Signalled
    /\ strategyName = "balanced"
    /\ candles = 14
    /\ indicators = <<>>
    /\ tradeSignal.coin = "ETH"
    /\ tradeSignal.signal = "HOLD"

(***************************************************************************)
(* C19.  For every list of indicator outputs the five indicator functions  *)
(* can produce (strength in 0..100), the score of the TradeSignal that     *)
(* computeSignal returns lies in [-100, 100].                              *)
(***************************************************************************)
C19_ScoreRange ==
    Signalled =>
        /\ \A i \in 1..Len(indicators) : indicators[i].strength \in 0..100
        /\ tradeSignal.score >= -100
        /\ tradeSignal.score <= 100

\* all five indicators say SELL at their full strength: the score is -79
C19_Witness ==
    /\ Signalled
    /\ Len(indicators) = 5
    /\ \A i \in 1..5 : indicators[i].signal = "SELL"
    /\ SignedSum(indicators, 5) = -395
    /\ tradeSignal.score = -79

(***************************************************************************)
(* C20.  For every candle count n and every strategy, analyzeIndicators    *)
(* returns exactly the outputs of the indicators that are named in the     *)
(* strategy's indicator set and have their minimum sample met (RSI 15,     *)
(* MACD 27, BollingerBands 21, Volume 21, MovingAverages 21), each once;   *)
(* every other indicator is omitted.                                       *)
(***************************************************************************)
MinSample ==
    [RSI |-> 15, MACD |-> 27, BollingerBands |-> 21, Volume |-> 21,
     MovingAverages |-> 21]

C20_IndicatorGating ==
    pc = "analyzed" =>
        LET due == {name \in strategy.indicators : candles >= MinSample[name]}
        IN  /\ {indicators[i].name : i \in 1..Len(indicators)} = due
            /\ Len(indicators) = Cardinality(due)
            /\ \A i \in 1..Len(indicators) :
                indicators[i].strength \in 0..100 /\ indicators[i].signal \in Signals

\* conservative on 26 candles: everything but MACD has run
C20_Witness ==
    /\ pc = "analyzed"
    /\ strategyName = "conservative"
    /\ candles = 26
    /\ Len(indicators) = 4
    /\ \A i \in 1..4 : indicators[i].name # "MACD"

(***************************************************************************)
(* C21.  The trade log is append-only: over every step of a running        *)
(* command (an executeTrade call of the backtest, the stop pass and the    *)
(* BUY / SELL of an auto-trade cycle) the log before the step is a prefix  *)
(* of the log after it; no trade is modified, reordered or removed.        *)
(***************************************************************************)
IsPrefix(s, t) == Len(s) <= Len(t) /\ SubSeq(t, 1, Len(s)) = s

C21_AppendOnly ==
    [][(pc \in {"simLoop", "simTrade", "autoStops", "autoCoins"})
        => IsPrefix(portfolio.trades, portfolio'.trades)]_vars

\* an auto-trade cycle has added a SELL to the two trades it loaded
C21_Witness ==
    /\ pc = "autoCoins"
    /\ disk # NoFile
    /\ Len(Parse(disk[1]).trades) = 2
    /\ Len(portfolio.trades) = 3
    /\ portfolio.trades[3].side = "SELL"
    /\ IsPrefix(Parse(disk[1]).trades, portfolio.trades)

(***************************************************************************)
(* C22.  Over the final trade log of a backtest a SELL is a win exactly    *)
(* when its price is strictly greater than the price of the latest earlier *)
(* BUY of the same coin (an equal price is a loss); winRate is 100 x wins  *)
(* / the number of SELL trades, 0 when there is none, and lies in [0,100]. *)
(***************************************************************************)
\* the wins counted by one pass from the start of the log that remembers the
\* price of each coin's latest BUY
RECURSIVE CountWins(_, _, _)
CountWins(trades, k, lastBuy) ==
    IF k > Len(trades) THEN 0
    ELSE IF trades[k].side = "BUY"
         THEN CountWins(trades, k + 1, [lastBuy EXCEPT ![trades[k].coin] = trades[k].price])
         ELSE (IF lastBuy[trades[k].coin] # Undef
                    /\ RLt(lastBuy[trades[k].coin], trades[k].price)
               THEN 1 ELSE 0) + CountWins(trades, k + 1, lastBuy)

SellCount(trades) == Cardinality({k \in 1..Len(trades) : trades[k].side = "SELL"})

C22_WinRate ==
    result # <<>> =>
        LET wins == CountWins(portfolio.trades, 1, [c \in CoinSet |-> Undef])
            sells == SellCount(portfolio.trades)
        IN  /\ sells = 0 => result[1].winRate = Zero
            /\ sells > 0 => RMul(result[1].winRate, R(sells)) = R(100 * wins)
            /\ RLe(Zero, result[1].winRate)
            /\ RLe(result[1].winRate, R(100))

\* a backtest ended with one winning and one losing SELL
C22_Witness ==
    /\ result # <<>>
    /\ SellCount(portfolio.trades) = 2
    /\ result[1].winRate = R(50)

(***************************************************************************)
(* C23.  Across the rounds of a backtest maxValue never decreases, is at   *)
(* least initialCapital and at least the portfolio value seen at the end   *)
(* of every round; maxDrawdown never decreases, is the larger of its old   *)
(* value and (maxValue - value) / maxValue x 100 of the round that ended,  *)
(* with the running maxValue of that round, and lies in [0,100].           *)
(***************************************************************************)
InBacktest == pc \in {"simLoop", "simTrade"}

\* the step ends a round: the last coin's executeTrade call
RoundEnd == pc = "simTrade" /\ ci = Len(coins)

\* m is the larger of a and b
IsLarger(m, a, b) == m \in {a, b} /\ RLe(a, m) /\ RLe(b, m)

C23_Drawdown ==
    [][/\ (InBacktest /\ InBacktest')
            => /\ RLe(sim.maxValue, sim'.maxValue)
               /\ RLe(sim.maxDrawdown, sim'.maxDrawdown)
       /\ InBacktest'
            => /\ RLe(capitalArg, sim'.maxValue)
               /\ RLe(Zero, sim'.maxDrawdown)
               /\ RLe(sim'.maxDrawdown, R(100))
       /\ RoundEnd
            => /\ RLe(TotalValue(portfolio'), sim'.maxValue)
               /\ IsLarger(sim'.maxValue, sim.maxValue, TotalValue(portfolio'))
               /\ IsLarger(sim'.maxDrawdown, sim.maxDrawdown,
                           RMul(RDiv(RSub(sim'.maxValue, TotalValue(portfolio')),
                                     sim'.maxValue), R(100)))
       /\ (InBacktest /\ InBacktest' /\ ~RoundEnd) => sim' = sim]_vars

\* the second round of a backtest ended below the peak
C23_Witness ==
    /\ pc = "simLoop"
    /\ sim.i = warmup + 2
    /\ RLt(Zero, sim.maxDrawdown)
    /\ RLt(TotalValue(portfolio), sim.maxValue)

(***************************************************************************)
(* C24.  A backtest runs on a fresh portfolio: whatever portfolio the      *)
(* state file holds, runSimulation starts from capital = initialCapital    *)
(* with no positions and no trades, so two runs with the same              *)
(* configuration and candles beside different persisted portfolios have    *)
(* the same capital, positions and trades, and return the same             *)
(* totalReturn, maxDrawdown and winRate.                                   *)
(***************************************************************************)
\* the loop has been entered and nothing has been observed yet
AtLoopStart == pc = "simLoop" /\ signal = NoSignal

C25_RisingSeries ==
    (closes = Rising(40) /\ rsi # <<>> /\ ma # <<>>)
        => rsi[1].signal = "BUY" /\ ma[1].signal = "BUY"

(***************************************************************************)
(* C27.  For every series of at least 15 prices calcRSI returns a value in *)
(* [0,100], and on a strictly increasing series, where no change is a      *)
(* loss, the value is at the boundary RSI = 100.                           *)
(***************************************************************************)
StrictlyIncreasing(prices) ==
    \A k \in 1..(Len(prices) - 1) : prices[k] < prices[k + 1]

C27_RSIRange ==
    rsi # <<>> =>
        /\ RLe(Zero, rsi[1].value)
        /\ RLe(rsi[1].value, R(100))
        /\ StrictlyIncreasing(closes) => rsi[1].value = R(100)

(***************************************************************************)
(* C26.  Under the conservative preset with all five indicators computed,  *)
(* whenever the RSI and the MACD results are both HOLD, computeSignal      *)
(* returns HOLD, whatever BollingerBands, Volume and MovingAverages say.   *)
(***************************************************************************)
\* the list holds the five results, RSI and MACD first, and both say HOLD
MomentumHolds ==
    /\ Len(indicators) = 5
    /\ indicators[1].name = "RSI" /\ indicators[1].signal = "HOLD"
    /\ indicators[2].name = "MACD" /\ indicators[2].signal = "HOLD"

C26_ConservativeConsensus ==
    (Signalled /\ strategyName = "conservative" /\ MomentumHolds)
        => tradeSignal.signal = "HOLD"

\* RSI and MACD hold while the three others all say BUY at full strength
C26_Witness ==
    /\ Signalled
    /\ strategyName = "conservative"
    /\ MomentumHolds
    /\ \A i \in 3..5 : indicators[i].signal = "BUY"
    /\ indicators[3].strength = 85
    /\ indicators[4].strength = 75
    /\ indicators[5].strength = 70
    /\ tradeSignal.score = 46
    /\ tradeSignal.signal = "HOLD"

(***************************************************************************)
(* C28.  Totals are recomputed after every mutating transition: whenever   *)
(* an executeTrade call changes capital, positions or the trade log, the   *)
(* portfolio it returns has totalPnl = capital + the market value of the   *)
(* positions - initialCapital and totalPnlPercent = totalPnl /             *)
(* initialCapital x 100, both on the state after the transition.           *)
(***************************************************************************)
\* the market value of the first k positions: quantity x current price, or
\* entry price while no current price is known
RECURSIVE MarketValue(_, _)
MarketValue(positions, k) ==
    IF k = 0 THEN Zero
    ELSE RAdd(MarketValue(positions, k - 1),
              RMul(positions[k].quantity,
                   IF positions[k].currentPrice \in {Undef, Zero}
                   THEN positions[k].entryPrice
                   ELSE positions[k].currentPrice))

TotalsCurrent(p) ==
    LET pnl == RSub(RAdd(p.capital, MarketValue(p.positions, Len(p.positions))),
                    p.initialCapital)
    IN  /\ p.totalPnl = pnl
        /\ RMul(p.totalPnlPercent, p.initialCapital) = RMul(pnl, R(100))

C28_TotalsRecomputed ==
    [][(SimTradeStep /\ ~SameLedger(portfolio, portfolio'))
        => TotalsCurrent(portfolio')]_vars

\* an executeTrade call has sold at a price other than the entry price: the
\* totals it returned are not those of the portfolio it was given
C28_Witness ==
    /\ pc = "simLoop"
    /\ signal.signal = "SELL"
    /\ portfolio.trades # <<>>
    /\ LastTrade(portfolio).side = "SELL"
    /\ LastTrade(portfolio).coin = signal.coin
    /\ portfolio.totalPnl # Zero
    /\ TotalsCurrent(portfolio)

(***************************************************************************)
(* C29.  For every durationDays >= 1 and minCandles >= 30 the step is      *)
(* max(1, floor((minCandles - 30) / (durationDays x 6))) >= 1; the sampled *)
(* indices are exactly 30, 30 + step, 30 + 2 x step, ... below minCandles, *)
(* strictly increasing; every requested coin is evaluated once per sampled *)
(* index, in the configured order; and the loop terminates.                *)
(***************************************************************************)
\* the step by its defining inequalities: the floor of the quotient, or 1
\* when that is less
SamplingStep ==
    LET span == MinCandles(chart) - 30
        per == durationDays * 6
        floor == CHOOSE q \in 0..span : q * per <= span /\ span < (q + 1) * per
    IN  IF floor >= 1 THEN floor ELSE 1

C29_SamplingSteps ==
    [][/\ (pc = "idle" /\ pc' = "simLoop")
            => sim'.i = 30 /\ ci' = 1
       /\ (pc = "simLoop" /\ pc' = "simTrade")
            => /\ sim.i < MinCandles(chart)
               /\ (sim.i - 30) % SamplingStep = 0
               /\ signal'.coin = coins[ci]
               /\ sim' = sim /\ ci' = ci
       /\ (pc = "simTrade" /\ ci < Len(coins))
            => ci' = ci + 1 /\ sim'.i = sim.i /\ pc' = "simLoop"
       /\ (pc = "simTrade" /\ ci = Len(coins))
            => /\ ci' = 1 /\ pc' = "simLoop"
               /\ sim'.i = sim.i + SamplingStep
               /\ sim'.i > sim.i
       /\ (pc = "simLoop" /\ pc' = "idle")
            => ci = 1 /\ sim.i >= MinCandles(chart)]_vars

C29_Sampling ==
    /\ C29_SamplingSteps
    /\ (pc = "simLoop") ~> (pc = "idle" /\ outcome = "ok")

\* a history of 43 candles sampled for one day with step 2: the loop has
\* gone through 30, 32, ..., 42 and is about to end
C29_Witness ==
    /\ pc = "simLoop"
    /\ ci = 1
    /\ durationDays = 1
    /\ MinCandles(chart) = 43
    /\ SamplingStep = 2
    /\ sim.i = 44
    /\ passes = 7

(***************************************************************************)
(* C30.  A backtest does not disturb the live portfolio: running the       *)
(* --simulate command leaves the persisted portfolio state unchanged, so   *)
(* the portfolio loaded by the next auto-trade cycle is the one the        *)
(* previous auto-trade cycle saved.  The code breaks it: after             *)
(* runSimulation main saves result.portfolio into the state file that      *)
(* runAutoTrade loads.                                                     *)
(***************************************************************************)
\* a step of the --simulate command: runSimulation's start, a step of its
\* loop, or its end with main's save
BacktestStep == SimulateStep \/ pc \in {"simLoop", "simTrade"}

C30_BacktestKeepsState == [][BacktestStep => disk' = disk]_vars

(***************************************************************************)
(* C31.  On a candle window for which all five indicators are computed, a  *)
(* BUY of conservative implies a BUY of balanced, and a BUY of balanced a  *)
(* BUY of aggressive; the same chain holds for SELL.  So, window by        *)
(* window, aggressive signals no later than balanced, and balanced no      *)
(* later than conservative.                                                *)
(***************************************************************************)
\* the presets have scored a window on which conservative got all five results
AllFiveComputed == panel # <<>> /\ Len(panel["conservative"].indicators) = 5

TabledResults ==
    RSIResults \cup MACDResults \cup BollingerBandsResults \cup VolumeResults
        \cup MovingAveragesResults

\* computeSignal has returned for a list that analyzeIndicators produced
ScoredFromTables ==
    /\ pc = "signalled"
    /\ \A i \in 1..Len(indicators) : indicators[i] \in TabledResults

CoinTrades(trades, coin) == SelectSeq(trades, LAMBDA t : t.coin = coin)

\* BUY at the odd places and SELL at the even ones, each SELL with the
\* quantity of the BUY before it
Alternates(ts) ==
    \A k \in 1..Len(ts) :
        IF k % 2 = 1 THEN ts[k].side = "BUY"
        ELSE ts[k].side = "SELL" /\ ts[k].quantity = ts[k - 1].quantity

C33_TradesAlternate ==
    \A coin \in CoinSet :
        LET ts == CoinTrades(portfolio.trades, coin)
        IN  /\ Alternates(ts)
            /\ (\E i \in 1..Len(portfolio.positions) : portfolio.positions[i].coin = coin)
                    <=> (ts # <<>> /\ ts[Len(ts)].side = "BUY")

\* BTC was bought, sold and bought again, with an ETH trade in between
C33_Witness ==
    /\ Len(CoinTrades(portfolio.trades, "BTC")) = 3
    /\ Len(portfolio.trades) > 3
    /\ portfolio.trades[2].coin = "ETH"
    /\ \E i \in 1..Len(portfolio.positions) : portfolio.positions[i].coin = "BTC"

(***************************************************************************)
(* C34.  In a trade log produced by executeTrade or runAutoTrade no two    *)
(* trades carry the same id, also when they are recorded in the same call  *)
(* or at the same clock reading.  The code breaks it: executeTrade's id is *)
(* the clock reading alone, and two pushes within one millisecond get the  *)
(* same one.                                                               *)
(***************************************************************************)
C34_UniqueIds ==
    \A i, j \in 1..Len(ids) : i # j => ids[i] # ids[j]

(***************************************************************************)
(* C35.  From a portfolio with capital >= 0 and with positive prices,      *)
(* after any sequence of executeTrade calls or auto-trade cycles the       *)
(* capital is >= 0 and every open position has a quantity > 0.             *)
(***************************************************************************)
C35_CapitalNonNegative ==
    /\ RGe(portfolio.capital, Zero)
    /\ \A i \in 1..Len(portfolio.positions) : RLt(Zero, portfolio.positions[i].quantity)

\* an auto-trade cycle has bought both coins out of a capital of 12, of
\* which only 2 are above the reserve
C35_Witness ==
    /\ capitalArg = R(12)
    /\ Len(portfolio.positions) = 2
    /\ RLt(portfolio.capital, R(12))
    /\ RLt(R(10), portfolio.capital)
    /\ pc = "idle"

(***************************************************************************)
(* C36.  With positive prices, an executeTrade call made by the backtest   *)
(* loop (the signal price is the close just set on the held position)      *)
(* never changes the total value, capital + sum of quantity x              *)
(* (currentPrice or entryPrice), whether it buys, sells on the signal,     *)
(* exits on stop-loss or take-profit, or does nothing; within the loop the *)
(* total value changes only when the driver sets a held position's         *)
(* currentPrice.                                                           *)
(***************************************************************************)
\* the driver sets the close on a position that is held
PriceUpdate ==
    /\ pc = "simLoop"
    /\ pc' = "simTrade"
    /\ \E i \in 1..Len(portfolio.positions) :
        /\ portfolio.positions[i].coin = signal'.coin
        /\ portfolio'.positions[i].currentPrice = signal'.price
        /\ portfolio.positions[i].currentPrice # signal'.price

C36_ValueNeutral ==
    [][/\ pc = "simTrade" => TotalValue(portfolio') = TotalValue(portfolio)
       /\ (pc \in {"simLoop", "simTrade"} /\ TotalValue(portfolio') # TotalValue(portfolio))
            => PriceUpdate]_vars

\* the loop goes on after a stop-loss exit: the value fell when the close
\* was set, not when the position was sold
C36_Witness ==
    /\ pc = "simLoop"
    /\ outcome = "running"
    /\ portfolio.trades # <<>>
    /\ LastTrade(portfolio).reason = "Stop-loss at"
    /\ RLt(TotalValue(portfolio), capitalArg)

(***************************************************************************)
(* C37.  At sampled index i the signal computed for a coin and the price   *)
(* of a trade executed for it depend only on the coin's candles at indices *)
(* max(0, i - 59) .. i; changing a candle at an index greater than i       *)
(* leaves every signal and trade produced up to and including index i      *)
(* unchanged.                                                              *)
(***************************************************************************)
\* the index of the one close in which the two BTC histories differ
ChangedIndex ==
    CHOOSE k \in 0..(HistoryLength - 1) :
        coinData.run[coins[1]][k + 1] # coinData.twin[coins[1]][k + 1]

\* the two histories of the coin have the same closes at the indices from..to
AgreeOn(coin, from, to) ==
    \A j \in from..to : coinData.run[coin][j + 1] = coinData.twin[coin][j + 1]

\* the index of the round that was started last: 30, 30 + step, ...
LastIndex ==
    LET quotient == (HistoryLength - 30) \div (durationDays * 6)
    IN  30 + (passes - 1) * (IF quotient >= 1 THEN quotient ELSE 1)

C37_NoLookAhead ==
    passes > 0 =>
        /\ LastIndex < ChangedIndex =>
                /\ twin.portfolio = portfolio
                /\ twin.sim = sim
                /\ twin.result = result
                /\ pc # "simTrade" => twin.signal = signal
        /\ (/\ pc # "simTrade"
            /\ AgreeOn(signal.coin, IF LastIndex > 59 THEN LastIndex - 59 ELSE 0, LastIndex))
                => twin.signal = signal

\* the histories differ at index 0: the ledgers of the two runs have parted,
\* and at index 60, whose window is 1 .. 60, the BTC signals are the same
C37_Witness ==
    /\ passes > 0
    /\ ChangedIndex = 0
    /\ LastIndex = 60
    /\ pc = "simLoop"
    /\ ci = 2
    /\ twin.portfolio # portfolio
    /\ twin.signal = signal
    /\ signal.signal = "SELL"

====
